---------------------------- MODULE Spec2Model ----------------------------
(***************************************************************************)
(* Model of the "vida laboral" record reconstruction of                    *)
(* PDF-Extractor-Streamlit: reorganizar_datos_completo.py (identity and    *)
(* episode extraction, the row loop, the end-of-stream flush, the final    *)
(* filtering and sort) followed by crear_multiples_filas of                *)
(* proceso_completo_cliente.py.                                            *)
(*                                                                         *)
(* A row of the extracted table is modelled by its joined text             *)
(* (fila_texto), and a text by the sequence of its whitespace-separated    *)
(* tokens.  A regular expression of the source is modelled by the token    *)
(* classes it accepts; the rows of the model are built so that every match *)
(* of the source's expressions starts and ends on a token boundary, except *)
(* for the check letter that ends a national ID, which the name pattern    *)
(* picks up (LetraFinal).  Field values are strings; None is the string    *)
(* "None" (no token has that text).                                        *)
(***************************************************************************)
EXTENDS Integers, Sequences, FiniteSets, TLC

None == "None"

(***************************************************************************)
(* Token classes                                                           *)
(***************************************************************************)
\* \d{2}-\d{2}-\d{4}
Fechas == {"10-05-2018", "01-02-2019", "15-07-2024", "24-07-2024", "03-03-2020"}
EsFecha(t) == t \in Fechas

\* tokens made of digits only (str.isdigit)
Digitos == {"12", "28", "33", "345678901", "123456789", "987654321", "1",
            "08", "540", "300", "250", "1794", "10"}
\* tokens made of upper-case letters only
Palabras == {"JUAN", "PEREZ", "GARCIA", "ANA", "LOPEZ", "MARTIN", "ALTA", "BAJA",
             "LACIOSN", "OZRA", "NOCIAZITCO", "DE", "ANTCUE", "OGDICO"}
\* words with a letter outside A-Z: the source's corrupted name has an
\* accented O in its second, third and last word (written here without it)
FueraDeAZ == {"OZRA", "NOCIAZITCO", "OGDICO"}
\* tokens of [A-Z0-9] only
AlfaNum == Digitos \cup (Palabras \ FueraDeAZ) \cup {"FE4", "7VH", "12345678Z"}
\* tokens whose first character is a letter A-Z
EmpiezaLetra == (Palabras \ FueraDeAZ) \cup {"FE4"}

\* ^\d+,\d{2}$   (the rate pivot)
EsPivote(t) == t \in {"1,80", "1,50", "3,30"}
\* ^\d+,\d+$
EsDecimal(t) == t \in {"1,80", "1,50", "3,30", "0,250", "1,5"}
\* ^\d{3,4}$
EsEntero34(t) == t \in Digitos /\ Len(t) \in 3..4
\* ^(\d{3,4}|0,\d{3})$
EsCTPEstricto(t) == EsEntero34(t) \/ t \in {"0,250"}
\* ^\d+,\d+$ or ^\d{3,4}$
EsCTPAmplio(t) == EsDecimal(t) \/ EsEntero34(t)
\* [A-Z0-9]{2,4}
EsCodigoAlfanum(t) == t \in AlfaNum /\ Len(t) \in 2..4
\* [A-Z][A-Z0-9]{1,3}
EsCodigoLetra(t) == t \in AlfaNum /\ t \in EmpiezaLetra /\ Len(t) \in 2..4

\* \d{2} before the blank and \d{9,10} after it
DosDigitos == {"12", "28", "33"}
NueveDigitos == {"345678901", "123456789", "987654321"}
\* \d before the blank and \d{8,9}[A-Z] after it
UnDigito == {"1"}
CuerpoDNI == {"12345678Z"}
\* the upper-case letter that ends a token that is not a word
LetraFinal(t) == IF t = "12345678Z" THEN "Z" ELSE None

Min(S) == CHOOSE x \in S : \A y \in S : x <= y
Max(S) == CHOOSE x \in S : \A y \in S : x >= y


(***************************************************************************)
(* Identity extraction                                                     *)
(***************************************************************************)
\* re.search(r'(\d{2}\s+\d{9,10})', texto): the first match, or None
extraer_afiliacion(texto) ==
    LET hits == {i \in 1..(Len(texto) - 1) :
                    texto[i] \in DosDigitos /\ texto[i + 1] \in NueveDigitos}
    IN  IF hits = {} THEN None
        ELSE texto[Min(hits)] \o " " \o texto[Min(hits) + 1]

\* re.search(r'(\d\s+\d{8,9}[A-Z])', texto): the first match, or None
extraer_dni(texto) ==
    LET hits == {i \in 1..(Len(texto) - 1) :
                    texto[i] \in UnDigito /\ texto[i + 1] \in CuerpoDNI}
    IN  IF hits = {} THEN None
        ELSE texto[Min(hits)] \o " " \o texto[Min(hits) + 1]

\* ' '.join(palabras)
RECURSIVE Unir(_)
Unir(palabras) ==
    IF palabras = <<>> THEN ""
    ELSE IF Len(palabras) = 1 THEN palabras[1]
    ELSE palabras[1] \o " " \o Unir(Tail(palabras))

\* len(' '.join(palabras))
RECURSIVE Largo(_)
Largo(palabras) ==
    IF palabras = <<>> THEN 0
    ELSE IF Len(palabras) = 1 THEN Len(palabras[1])
    ELSE Len(palabras[1]) + 1 + Largo(Tail(palabras))

SinUltimo(s) == SubSeq(s, 1, Len(s) - 1)

\* re.findall(r'([A-Z..][A-Z..\s]{8,60})', texto): the runs of upper-case
\* letters and blanks, each as its sequence of words.  A run is cut by any
\* token that is not a word; the check letter ending such a token starts the
\* next run.  (A run of fewer than 9 characters is no match of the pattern;
\* limpiar_nombre rejects it anyway, as it is shorter than 10.)
RECURSIVE Corridas(_, _, _)
Corridas(texto, actual, hechas) ==
    LET cerrar == IF actual = <<>> THEN hechas ELSE Append(hechas, actual)
    IN  IF texto = <<>> THEN cerrar
        ELSE IF Head(texto) \in Palabras
             THEN Corridas(Tail(texto), Append(actual, Head(texto)), hechas)
        ELSE IF LetraFinal(Head(texto)) # None
             THEN Corridas(Tail(texto), <<LetraFinal(Head(texto))>>, cerrar)
        ELSE Corridas(Tail(texto), <<>>, cerrar)

\* while the last word is one upper-case letter, drop it
RECURSIVE QuitarLetrasSueltas(_)
QuitarLetrasSueltas(palabras) ==
    IF palabras # <<>> /\ Len(palabras[Len(palabras)]) = 1
    THEN QuitarLetrasSueltas(SinUltimo(palabras))
    ELSE palabras

\* the cleaning limpiar_nombre applies to one accepted match
LimpiarCorrida(palabras) ==
    LET \* re.sub(r'^[A-Z]\s+', '', nombre)
        a == IF Len(palabras) >= 2 /\ Len(palabras[1]) = 1
                  /\ palabras[1] \notin FueraDeAZ
             THEN Tail(palabras) ELSE palabras
        \* re.sub(r'\s+[A-Z0-9]{2,4}$', '', nombre)
        b == IF Len(a) >= 2 /\ EsCodigoAlfanum(a[Len(a)])
             THEN SinUltimo(a) ELSE a
    IN  IF Len(b) >= 3 THEN QuitarLetrasSueltas(b) ELSE b

RECURSIVE PrimerNombre(_)
PrimerNombre(corridas) ==
    IF corridas = <<>> THEN None
    ELSE LET palabras == Head(corridas)
             limpio == LimpiarCorrida(palabras)
         IN  IF Len(palabras) >= 2 /\ Largo(palabras) >= 10
                /\ Len(limpio) >= 2 /\ Largo(limpio) >= 10
             THEN Unir(limpio)
             ELSE PrimerNombre(Tail(corridas))

\* dni[-1]: the check letter of an extracted national ID
LetraDNI(dni) ==
    LET c == CHOOSE x \in CuerpoDNI : \E u \in UnDigito : dni = u \o " " \o x
    IN  LetraFinal(c)

\* limpiar_nombre(texto, dni)
limpiar_nombre(texto, dni) ==
    LET \* texto.startswith(letra_dni + ' ')
        t == IF dni # None /\ Len(texto) >= 2 /\ texto[1] = LetraDNI(dni)
             THEN Tail(texto) ELSE texto
    IN  PrimerNombre(Corridas(t, <<>>, <<>>))

(***************************************************************************)
(* Episode extraction: parsear_fila_fechas                                 *)
(***************************************************************************)
\* resultado = {}: every key absent (resultado.get gives None)
ResultadoVacio ==
    [Situacion |-> None, F_Real_Alta |-> None, F_Efecto_Alta |-> None,
     F_Real_Sit |-> None, F_Efecto_Sit |-> None, G_C_M |-> None, T_C |-> None,
     C_T_P |-> None, Tipos_AT_IT |-> None, IMS |-> None, Total |-> None,
     Dias_Cot |-> None]

\* 'ALTA' in texto, 'BAJA' in texto
tiene_alta(texto) == \E i \in 1..Len(texto) : texto[i] = "ALTA"
tiene_baja(texto) == \E i \in 1..Len(texto) : texto[i] = "BAJA"

\* positions of a keyword followed by n dates
ConFechas(texto, clave, n) ==
    {i \in 1..Len(texto) :
        /\ texto[i] = clave
        /\ i + n <= Len(texto)
        /\ \A k \in 1..n : EsFecha(texto[i + k])}

\* re.search(r'(ALTA|BAJA)\s+\d{2}-\d{2}-\d{4}', fila_texto)
tiene_fecha(texto) ==
    ConFechas(texto, "ALTA", 1) \cup ConFechas(texto, "BAJA", 1) # {}

\* re.sub(r'\s+[A-Z0-9]{2,4}$', '', texto_datos).strip().split()
QuitarCLVAlfanum(partes) ==
    IF Len(partes) >= 2 /\ EsCodigoAlfanum(partes[Len(partes)])
    THEN SinUltimo(partes) ELSE partes

\* re.sub(r'\s+[A-Z][A-Z0-9]{1,3}(\s+[A-Z][A-Z0-9]{1,3})*$', '', texto_datos)
\* .strip().split(): the longest run of letter-first codes that ends the text
\* and does not start it
RECURSIVE QuitarCLVLetras(_)
QuitarCLVLetras(partes) ==
    IF Len(partes) >= 2 /\ EsCodigoLetra(partes[Len(partes)])
    THEN QuitarCLVLetras(SinUltimo(partes)) ELSE partes

\* the "if len(partes) >= 6:" block shared by the three branches, which differ
\* in the pattern a part-time percentage must match (amplio: the ALTA and the
\* BAJA branch; otherwise the ALTA/BAJA branch)
CamposCola(partes, amplio, r) ==
    IF Len(partes) < 6 THEN r
    ELSE
      LET n == Len(partes)
          pivotes == {i \in 1..n : EsPivote(partes[i])}
          \* idx_tipos, 0-based as in the source; -1 stands for None
          idx_tipos == IF pivotes = {} THEN -1 ELSE Min(pivotes) - 1
          en(k) == IF k < n THEN partes[k + 1] ELSE None
          base == [r EXCEPT !.G_C_M = IF partes[1] \in Digitos THEN partes[1] ELSE None,
                            !.T_C = partes[2]]
      IN  \* "if idx_tipos and idx_tipos >= 2": None and 0 are both false
          IF idx_tipos >= 2
          THEN [base EXCEPT
                  !.C_T_P = IF idx_tipos > 2
                               /\ (IF amplio THEN EsCTPAmplio(partes[3])
                                             ELSE EsCTPEstricto(partes[3]))
                            THEN partes[3] ELSE "100",
                  !.Tipos_AT_IT = en(idx_tipos),
                  !.IMS = en(idx_tipos + 1),
                  !.Total = en(idx_tipos + 2),
                  !.Dias_Cot = en(idx_tipos + 3)]
          ELSE [base EXCEPT
                  !.C_T_P = "100",
                  !.Tipos_AT_IT = partes[n - 3],
                  !.IMS = partes[n - 2],
                  !.Total = partes[n - 1],
                  !.Dias_Cot = partes[n]]

\* a faulty variant of ParsearAltaBaja: the first four-date BAJA group is taken
ParsearAltaBajaPrimera(texto) ==
    LET altas == ConFechas(texto, "ALTA", 2)
        bajas == ConFechas(texto, "BAJA", 4)
        r0 == [ResultadoVacio EXCEPT !.Situacion = "ALTA/BAJA"]
        r1 == IF altas = {} THEN r0
              ELSE [r0 EXCEPT !.F_Real_Alta = texto[Min(altas) + 1],
                              !.F_Efecto_Alta = texto[Min(altas) + 2]]
        u == Min(bajas)
        r2 == IF bajas = {} THEN r1
              ELSE [r1 EXCEPT
                      !.F_Real_Alta = IF r1.F_Real_Alta = None
                                      THEN texto[u + 1] ELSE @,
                      !.F_Efecto_Alta = IF r1.F_Real_Alta = None
                                        THEN texto[u + 2] ELSE @,
                      !.F_Real_Sit = texto[u + 3],
                      !.F_Efecto_Sit = texto[u + 4]]
        p == Max({i \in 1..Len(texto) : texto[i] = "BAJA"})
    IN  IF p \in bajas /\ p + 4 < Len(texto)
        THEN CamposCola(QuitarCLVLetras(SubSeq(texto, p + 5, Len(texto))), FALSE, r2)
        ELSE r2

\* the branch "if tiene_alta and tiene_baja"
ParsearAltaBaja(texto) ==
    LET altas == ConFechas(texto, "ALTA", 2)
        bajas == ConFechas(texto, "BAJA", 4)
        r0 == [ResultadoVacio EXCEPT !.Situacion = "ALTA/BAJA"]
        r1 == IF altas = {} THEN r0
              ELSE [r0 EXCEPT !.F_Real_Alta = texto[Min(altas) + 1],
                              !.F_Efecto_Alta = texto[Min(altas) + 2]]
        \* todas_bajas[-1]
        u == Max(bajas)
        r2 == IF bajas = {} THEN r1
              ELSE [r1 EXCEPT
                      !.F_Real_Alta = IF r1.F_Real_Alta = None
                                      THEN texto[u + 1] ELSE @,
                      !.F_Efecto_Alta = IF r1.F_Real_Alta = None
                                        THEN texto[u + 2] ELSE @,
                      !.F_Real_Sit = texto[u + 3],
                      !.F_Efecto_Sit = texto[u + 4]]
        \* texto.rfind('BAJA')
        p == Max({i \in 1..Len(texto) : texto[i] = "BAJA"})
    IN  \* match_datos_baja: four dates and some text after the last BAJA
        IF p \in bajas /\ p + 4 < Len(texto)
        THEN CamposCola(QuitarCLVLetras(SubSeq(texto, p + 5, Len(texto))), FALSE, r2)
        ELSE r2

\* the branch "elif tiene_alta"
ParsearAlta(texto) ==
    LET r0 == [ResultadoVacio EXCEPT !.Situacion = "ALTA"]
        \* ALTA, two dates and some text after them
        altas == {i \in ConFechas(texto, "ALTA", 2) : i + 2 < Len(texto)}
        a == Min(altas)
    IN  IF altas = {} THEN r0
        ELSE CamposCola(QuitarCLVAlfanum(SubSeq(texto, a + 3, Len(texto))), TRUE,
                        [r0 EXCEPT !.F_Real_Alta = texto[a + 1],
                                   !.F_Efecto_Alta = texto[a + 2]])

\* the branch "elif tiene_baja"
ParsearBaja(texto) ==
    LET r0 == [ResultadoVacio EXCEPT !.Situacion = "BAJA"]
        bajas == {i \in ConFechas(texto, "BAJA", 4) : i + 4 < Len(texto)}
        b == Min(bajas)
    IN  IF bajas = {} THEN r0
        ELSE CamposCola(QuitarCLVLetras(SubSeq(texto, b + 5, Len(texto))), TRUE,
                        [r0 EXCEPT !.F_Real_Alta = texto[b + 1],
                                   !.F_Efecto_Alta = texto[b + 2],
                                   !.F_Real_Sit = texto[b + 3],
                                   !.F_Efecto_Sit = texto[b + 4]])

parsear_fila_fechas(texto) ==
    IF tiene_alta(texto) /\ tiene_baja(texto) THEN ParsearAltaBaja(texto)
    ELSE IF tiene_alta(texto) THEN ParsearAlta(texto)
    ELSE IF tiene_baja(texto) THEN ParsearBaja(texto)
    ELSE ResultadoVacio

(***************************************************************************)
(* The row loop of reorganizar_datos_completo.py                           *)
(***************************************************************************)
\* the dictionary built for a new worker ("Crear registro de empleado
\* basico").  The columns EP_OC (always None) and CLV (read from the cell
\* layout, which the token model does not keep) are left out: no other field
\* is computed from them.
NuevoEmpleado(afiliacion, dni, nombre) ==
    [Numero_Afiliacion |-> afiliacion, Situacion |-> None,
     Documento_Identificativo |-> dni,
     F_Real_Alta |-> None, F_Efecto_Alta |-> None,
     F_Real_Sit |-> None, F_Efecto_Sit |-> None,
     Nombre_Apellidos |-> nombre,
     G_C_M |-> None, T_C |-> None, C_T_P |-> None,
     Tipos_AT_IT |-> None, IMS |-> None, Total |-> None, Dias_Cot |-> None]

\* "if afiliacion or dni"
TieneIdentidad(texto) ==
    extraer_afiliacion(texto) # None \/ extraer_dni(texto) # None

\* a date row while a worker is open: the fields of empleado_actual after the
\* assignments that precede "empleados.append(empleado_actual)"
CombinarFechas(emp, ff) ==
    [emp EXCEPT
       !.Situacion = IF emp.Situacion # None /\ ff.Situacion # None
                     THEN (IF emp.Situacion # ff.Situacion THEN "ALTA/BAJA" ELSE @)
                     ELSE ff.Situacion,
       !.F_Real_Alta = IF @ = None THEN ff.F_Real_Alta ELSE @,
       !.F_Efecto_Alta = IF @ = None THEN ff.F_Efecto_Alta ELSE @,
       !.F_Real_Sit = ff.F_Real_Sit,
       !.F_Efecto_Sit = ff.F_Efecto_Sit,
       !.G_C_M = IF @ = None THEN ff.G_C_M ELSE @,
       !.T_C = IF @ = None THEN ff.T_C ELSE @,
       !.C_T_P = IF ff.C_T_P # None THEN ff.C_T_P
                 ELSE IF @ = None THEN "100" ELSE @,
       !.Tipos_AT_IT = IF @ = None THEN ff.Tipos_AT_IT ELSE @,
       !.IMS = IF @ = None THEN ff.IMS ELSE @,
       !.Total = IF @ = None THEN ff.Total ELSE @,
       !.Dias_Cot = IF @ = None THEN ff.Dias_Cot ELSE @]

\* the eleven assignments of a retroactive (or look-ahead) attachment: every
\* episode field but C_T_P is overwritten
AsignarFechas(emp, ff) ==
    [emp EXCEPT
       !.Situacion = ff.Situacion,
       !.F_Real_Alta = ff.F_Real_Alta,
       !.F_Efecto_Alta = ff.F_Efecto_Alta,
       !.F_Real_Sit = ff.F_Real_Sit,
       !.F_Efecto_Sit = ff.F_Efecto_Sit,
       !.G_C_M = ff.G_C_M,
       !.T_C = ff.T_C,
       !.Tipos_AT_IT = ff.Tipos_AT_IT,
       !.IMS = ff.IMS,
       !.Total = ff.Total,
       !.Dias_Cot = ff.Dias_Cot]

\* rows looked at before an episode line without open worker
VentanaAtras == 3
\* "for emp in empleados[-5:]"
UltimosGuardados == 5

\* the first row of range(max(0, idx-3), idx) that carries an identity (its
\* 0-based index), or -1: the scan stops at that row ("break")
FilaAnterior(filas, i) ==
    LET cand == {k \in (IF i - VentanaAtras > 0 THEN i - VentanaAtras ELSE 0)..(i - 1) :
                    TieneIdentidad(filas[k + 1])}
    IN  IF cand = {} THEN -1 ELSE Min(cand)

\* "emp.get('Numero_Afiliacion') == afiliacion_ant or
\*  emp.get('Documento_Identificativo') == dni_ant"
Coincide(emp, afiliacion_ant, dni_ant) ==
    \/ emp.Numero_Afiliacion = afiliacion_ant
    \/ emp.Documento_Identificativo = dni_ant

\* the position in empleados of the record a retroactive attachment writes,
\* or 0: the first of the last five that matches and has no Situacion
Destino(lista, filas, i) ==
    LET k == FilaAnterior(filas, i)
        ant == filas[k + 1]
        cand == {j \in (IF Len(lista) > UltimosGuardados
                        THEN Len(lista) - UltimosGuardados + 1 ELSE 1)..Len(lista) :
                    /\ Coincide(lista[j], extraer_afiliacion(ant), extraer_dni(ant))
                    /\ lista[j].Situacion = None}
    IN  IF k = -1 \/ cand = {} THEN 0 ELSE Min(cand)

\* a date row while no worker is open: empleados afterwards
AsignarRetroactivo(lista, filas, i) ==
    LET j == Destino(lista, filas, i)
    IN  IF j = 0 THEN lista
        ELSE [lista EXCEPT ![j] = AsignarFechas(@, parsear_fila_fechas(filas[i + 1]))]

\* an identity row while a worker is open: the record that is appended.  The
\* "fila inmediatamente siguiente" the source inspects is df.iloc[idx], the
\* identity row itself.
CerrarAnterior(emp, fila_sig) ==
    IF tiene_fecha(fila_sig) /\ ~TieneIdentidad(fila_sig)
    THEN AsignarFechas(emp, parsear_fila_fechas(fila_sig))
    ELSE emp

\* the worker opened by an identity row.  The search of the name in the single
\* columns repeats limpiar_nombre on parts of the same text.
AbrirEmpleado(texto) ==
    NuevoEmpleado(extraer_afiliacion(texto), extraer_dni(texto),
                  limpiar_nombre(texto, extraer_dni(texto)))

\* a faulty variant of PasoFila: a row without data forgets the open worker
PasoFilaOlvida(lista, actual, filas, i) ==
    LET texto == filas[i + 1]
    IN  IF texto = <<>> THEN <<lista, actual>>
        ELSE IF tiene_fecha(texto)
        THEN IF actual # <<>>
             THEN <<Append(lista, CombinarFechas(actual[1], parsear_fila_fechas(texto))),
                    <<>>>>
             ELSE <<AsignarRetroactivo(lista, filas, i), actual>>
        ELSE IF TieneIdentidad(texto)
        THEN <<IF actual # <<>> THEN Append(lista, CerrarAnterior(actual[1], texto))
                                ELSE lista,
               <<AbrirEmpleado(texto)>>>>
        ELSE <<lista, <<>>>>

\* one iteration of "for idx in range(len(df))": <<empleados, empleado_actual>>
\* afterwards.  empleado_actual is <<>> for None and <<e>> for a dictionary e.
PasoFila(lista, actual, filas, i) ==
    LET texto == filas[i + 1]
    IN  IF texto = <<>> THEN <<lista, actual>>
        ELSE IF tiene_fecha(texto)
        THEN IF actual # <<>>
             THEN <<Append(lista, CombinarFechas(actual[1], parsear_fila_fechas(texto))),
                    <<>>>>
             ELSE <<AsignarRetroactivo(lista, filas, i), actual>>
        ELSE IF TieneIdentidad(texto)
        THEN <<IF actual # <<>> THEN Append(lista, CerrarAnterior(actual[1], texto))
                                ELSE lista,
               <<AbrirEmpleado(texto)>>>>
        ELSE <<lista, actual>>

\* a faulty variant of FinalDeFilas: the worker still open is not appended
FinalDeFilasSinGuardar(lista, actual) == lista

\* the block after the loop: range(len(df), min(len(df)+4, len(df))) is empty,
\* so no row is looked at and the open worker is appended as it is
FinalDeFilas(lista, actual) ==
    IF actual # <<>> THEN Append(lista, actual[1]) ELSE lista

\* the whole pass over the rows: empleados when the DataFrame is built
RECURSIVE Recorrer(_, _, _, _)
Recorrer(lista, actual, filas, i) ==
    IF i >= Len(filas) THEN FinalDeFilas(lista, actual)
    ELSE LET r == PasoFila(lista, actual, filas, i)
         IN  Recorrer(r[1], r[2], filas, i + 1)

Reconstruir(filas) == Recorrer(<<>>, <<>>, filas, 0)

(***************************************************************************)
(* Final filtering and sort                                                *)
(***************************************************************************)
NombreCorrupto == "LACIOSN OZRA NOCIAZITCO DE ANTCUE OGDICO"

\* a faulty variant of FiltrarCorrupto: only the first record is looked at
FiltrarCorruptoPrimero(lista) ==
    IF lista # <<>> /\ Head(lista).Nombre_Apellidos = NombreCorrupto
    THEN Tail(lista) ELSE lista

\* df_final[df_final['Nombre_Apellidos'] != nombre_corrupto]
FiltrarCorrupto(lista) == SelectSeq(lista, LAMBDA e : e.Nombre_Apellidos # NombreCorrupto)

\* dropna(subset=[the three identity columns], how='all')
TieneAlgunDato(e) ==
    \/ e.Numero_Afiliacion # None
    \/ e.Documento_Identificativo # None
    \/ e.Nombre_Apellidos # None
QuitarVacios(lista) == SelectSeq(lista, TieneAlgunDato)

\* the order of the affiliation numbers as strings
AfilRango(a) ==
    CASE a = "12 345678901" -> 1
      [] a = "28 123456789" -> 2
      [] a = "33 987654321" -> 3

\* a goes before b: both present and a smaller, or b absent (na_position='last')
VaAntes(a, b) ==
    a.Numero_Afiliacion # None
    /\ (b.Numero_Afiliacion = None
        \/ AfilRango(a.Numero_Afiliacion) < AfilRango(b.Numero_Afiliacion))

\* e put into an ordered list after every record that does not go after it
RECURSIVE Insertar(_, _)
Insertar(e, lista) ==
    IF lista = <<>> THEN <<e>>
    ELSE IF VaAntes(e, Head(lista)) THEN <<e>> \o lista
    ELSE <<Head(lista)>> \o Insertar(e, Tail(lista))

\* the insertion sort that ends the quicksort of the library: it keeps the
\* order of equal keys
RECURSIVE Insercion(_)
Insercion(lista) ==
    IF lista = <<>> THEN <<>>
    ELSE Insertar(lista[Len(lista)], Insercion(SinUltimo(lista)))

\* the insertion sort applied to the positions pl..pr of t
InsercionRango(t, pl, pr) ==
    SubSeq(t, 1, pl - 1) \o Insercion(SubSeq(t, pl, pr)) \o SubSeq(t, pr + 1, Len(t))

\* sort_values is called without kind=, which is kind='quicksort': for a
\* column of Python strings pandas sorts the present values with numpy's
\* argsort(kind='quicksort') and appends the absent ones in their order.
\* numpy partitions a range of more than SMALL_QUICKSORT + 1 elements around
\* the median of three and sorts a shorter range by insertion.  (The heapsort
\* it falls back to after 2 * floor(log2(n)) nested partitions is out of
\* reach of lists this short.)
PequenoQuicksort == 16

Intercambiar(t, i, j) == [t EXCEPT ![i] = t[j], ![j] = t[i]]

\* cmp(a, b) < 0 on two present affiliation numbers
Menor(a, b) == AfilRango(a.Numero_Afiliacion) < AfilRango(b.Numero_Afiliacion)

\* "do ++pi while (cmp(v[*pi], vp) < 0 && pi < pj)", pi already incremented
RECURSIVE Sube(_, _, _, _)
Sube(t, pi, pj, vp) ==
    IF Menor(t[pi], vp) /\ pi < pj THEN Sube(t, pi + 1, pj, vp) ELSE pi

\* "do --pj while (cmp(vp, v[*pj]) < 0 && pi < pj)", pj already decremented
RECURSIVE Baja(_, _, _, _)
Baja(t, pi, pj, vp) ==
    IF Menor(vp, t[pj]) /\ pi < pj THEN Baja(t, pi, pj - 1, vp) ELSE pj

\* the "for (;;)" loop of the partition: <<t, pi>> when it breaks
RECURSIVE Repartir(_, _, _, _)
Repartir(t, pi, pj, vp) ==
    LET i == Sube(t, pi + 1, pj, vp)
        j == Baja(t, i, pj - 1, vp)
    IN  IF i >= j THEN <<t, i>> ELSE Repartir(Intercambiar(t, i, j), i, j, vp)

\* one partition of the positions pl..pr: <<t, position of the pivot>>
Particion(t, pl, pr) ==
    LET pm == pl + ((pr - pl) \div 2)
        t1 == IF Menor(t[pm], t[pl]) THEN Intercambiar(t, pm, pl) ELSE t
        t2 == IF Menor(t1[pr], t1[pm]) THEN Intercambiar(t1, pr, pm) ELSE t1
        t3 == IF Menor(t2[pm], t2[pl]) THEN Intercambiar(t2, pm, pl) ELSE t2
        r == Repartir(Intercambiar(t3, pm, pr - 1), pl, pr - 1, t3[pm])
    IN  <<Intercambiar(r[1], r[2], pr - 1), r[2]>>

RECURSIVE aquicksort(_, _, _)
aquicksort(t, pl, pr) ==
    IF pr - pl > PequenoQuicksort
    THEN LET p == Particion(t, pl, pr)
         IN  aquicksort(aquicksort(p[1], pl, p[2] - 1), p[2] + 1, pr)
    ELSE InsercionRango(t, pl, pr)

\* a faulty variant of Ordenar: the records are left in their order
OrdenarNada(lista) == lista

\* sort_values('Numero_Afiliacion', na_position='last')
Ordenar(lista) ==
    LET con == SelectSeq(lista, LAMBDA e : e.Numero_Afiliacion # None)
        sin == SelectSeq(lista, LAMBDA e : e.Numero_Afiliacion = None)
    IN  aquicksort(con, 1, Len(con)) \o sin

\* "Crear DataFrame final" to the sort
Sanear(lista) == Ordenar(QuitarVacios(FiltrarCorrupto(lista)))

(***************************************************************************)
(* proceso_completo_cliente.py: crear_multiples_filas                      *)
(***************************************************************************)
\* a faulty variant of FilaAlta: the termination dates are not cleared
FilaAltaSinLimpiar(row) == [row EXCEPT !.Situacion = "ALTA"]

FilaAlta(row) ==
    [row EXCEPT !.Situacion = "ALTA", !.F_Real_Sit = None, !.F_Efecto_Sit = None]

\* a faulty variant of FilaBaja: the termination dates are cleared here too
FilaBajaLimpia(row) ==
    [row EXCEPT !.Situacion = "BAJA", !.F_Real_Sit = None, !.F_Efecto_Sit = None]

FilaBaja(row) == [row EXCEPT !.Situacion = "BAJA"]

RECURSIVE crear_multiples_filas(_)
crear_multiples_filas(lista) ==
    IF lista = <<>> THEN <<>>
    ELSE (IF Head(lista).Situacion = "ALTA/BAJA"
          THEN <<FilaAlta(Head(lista)), FilaBaja(Head(lista))>>
          ELSE <<Head(lista)>>) \o crear_multiples_filas(Tail(lista))

(***************************************************************************)
(* The rows the model feeds to the loop                                    *)
(***************************************************************************)
\* identity rows: affiliation number and name; affiliation number alone;
\* affiliation number, national ID and name; the corrupted name
FilaJuan == <<"12", "345678901", "JUAN", "PEREZ", "GARCIA">>
FilaSoloAfiliacion == <<"12", "345678901">>
FilaAna == <<"28", "123456789", "1", "12345678Z", "ANA", "LOPEZ", "MARTIN">>
\* national ID and name, no affiliation number
FilaSoloDNI == <<"1", "12345678Z", "ANA", "LOPEZ", "MARTIN">>
FilaMartin == <<"33", "987654321", "MARTIN", "LOPEZ", "GARCIA">>
FilaCorrupta == <<"33", "987654321", "LACIOSN", "OZRA", "NOCIAZITCO", "DE",
                  "ANTCUE", "OGDICO">>
\* an identity and a hire line in one row
FilaAnaAlta == <<"28", "123456789", "ALTA", "10-05-2018", "10-05-2018",
                 "08", "540", "0,250", "1,80", "1,50", "3,30", "1794", "FE4">>
\* a name alone; an all-empty row
FilaNombre == <<"JUAN", "PEREZ", "GARCIA">>
FilaVaciaTexto == <<>>
\* episode lines
FilaAlta1 == <<"ALTA", "10-05-2018", "10-05-2018",
               "08", "540", "1,80", "1,50", "3,30", "1794">>
FilaBaja1 == <<"BAJA", "10-05-2018", "10-05-2018", "01-02-2019", "01-02-2019",
               "08", "300", "1,80", "1,50", "3,30", "10", "7VH">>
FilaBaja2 == <<"BAJA", "03-03-2020", "03-03-2020", "15-07-2024", "24-07-2024",
               "08", "300", "250", "1,80", "1,50", "3,30", "10">>
FilaAltaBaja == <<"ALTA", "10-05-2018", "10-05-2018",
                  "BAJA", "10-05-2018", "10-05-2018", "01-02-2019", "01-02-2019",
                  "BAJA", "03-03-2020", "03-03-2020", "15-07-2024", "24-07-2024",
                  "08", "300", "1,80", "1,50", "3,30", "10">>

\* short documents over every kind of row, long documents over few kinds
FilasCortas == {FilaJuan, FilaSoloAfiliacion, FilaAna, FilaSoloDNI, FilaCorrupta, FilaAnaAlta,
                FilaNombre, FilaVaciaTexto, FilaAlta1, FilaBaja1, FilaBaja2,
                FilaAltaBaja}
FilasLargas == {FilaJuan, FilaAna, FilaMartin, FilaNombre, FilaVaciaTexto, FilaBaja1}
MaxFilasCortas == 3
MaxFilasLargas == 5

\* documents long enough for the sort to partition: identity rows of one
\* affiliation number, with and without name, and of every affiliation number
\* in turn
FilasIguales == 18
Ciclo == <<FilaMartin, FilaSoloDNI, FilaAna, FilaJuan, FilaAna>>
DocumentosIguales ==
    {[i \in 1..FilasIguales |-> IF i \in S THEN FilaSoloAfiliacion ELSE FilaJuan] :
        S \in SUBSET (1..5)}
    \cup {[i \in 1..FilasIguales |-> Ciclo[((i + o) % Len(Ciclo)) + 1]] : o \in 0..4}

Documentos ==
    UNION {[1..n -> FilasCortas] : n \in 0..MaxFilasCortas}
    \cup UNION {[1..n -> FilasLargas] : n \in 0..MaxFilasLargas}
    \cup DocumentosIguales

(***************************************************************************)
(* State                                                                   *)
(***************************************************************************)
VARIABLES
    df,               \* the rows read from the input file
    idx,              \* the loop index (0-based)
    empleados,        \* the records saved so far
    empleado_actual,  \* <<>> (None) or <<the open worker>>
    pc,               \* "filas", "fin", "filtrar", "multiples", "hecho", "KeyError"
    df_final,         \* the records written by reorganizar_datos_completo.py
    df_multiple,      \* the records written by crear_multiples_filas
    origen,           \* history: for each saved record, the index of its identity row
    origen_actual,    \* history: the index of the open worker's identity row, or -1
    huerfanas,        \* history: the indices of the date rows met with no open worker
    plantilla,        \* one call of PDFTemplate.process_pdf
    inv,              \* the calls of VidaLaboralSecuenciaTemplate.process_pdf
    archivos,         \* the files of data/ those calls and their scripts share
    linea,            \* parsear_fila_fechas: the episode line it is given (texto)
    cola,             \* the tokens after the dates (texto_datos as matched)
    partes_linea,     \* the tokens that are split into fields (partes)
    parseado,         \* the dictionary it returns (resultado)
    parseado_complete, \* what VidaLaboralCompleteTemplate._parsear_fila_fechas returns
    df_complete,      \* _reorganizar_datos_completo: the rows of the table it is given
    idx_complete,     \* rows read so far; one more once the last worker is added
    empleados_complete, \* its list empleados
    empleado_complete, \* its empleado_actual: <<>> (None) or <<record>>
    sec,              \* one call of the sequence template, step by step
    auto,             \* one call of PDFExtractor._extract_auto
    hojas,            \* one call of GoogleSheetsHandler.find_and_update
    proc              \* one call of procesar_documento

vars == <<df, idx, empleados, empleado_actual, pc, df_final, df_multiple,
          origen, origen_actual, huerfanas, plantilla, inv, archivos,
          linea, cola, partes_linea, parseado, parseado_complete,
          df_complete, idx_complete, empleados_complete, empleado_complete,
          sec, auto, hojas, proc>>

\* the variables of the script run on its own, and those of the templates
vars_script == <<df, idx, empleados, empleado_actual, pc, df_final, df_multiple,
                 origen, origen_actual, huerfanas>>
vars_plantillas == <<plantilla, inv, archivos>>

\* the variables of the functions and handlers that are run on their own
vars_parseo == <<linea, cola, partes_linea, parseado, parseado_complete>>
vars_complete == <<df_complete, idx_complete, empleados_complete, empleado_complete>>
vars_flujos == <<sec, auto, hojas, proc>>
vars_otros == <<vars_parseo, vars_complete, vars_flujos>>

\* the script before its loop, on the rows filas
InicioScript(filas) ==
    /\ df = filas
    /\ idx = 0
    /\ empleados = <<>>
    /\ empleado_actual = <<>>
    /\ pc = "filas"
    /\ df_final = <<>>
    /\ df_multiple = <<>>
    /\ origen = <<>>
    /\ origen_actual = -1
    /\ huerfanas = {}

\* PDFTemplate.process_pdf when it is called: nothing extracted yet
PlantillaInicial ==
    [pc |-> "extract_data", df_raw |-> <<>>, validation |-> <<>>, resultado |-> <<>>]

\* the calls of the sequence template
Invocaciones == {1, 2}

\* a call of VidaLaboralSecuenciaTemplate.process_pdf on the document pdf
InvocacionInicial(pdf) ==
    [pc |-> "copy", pdf |-> pdf, df_raw |-> <<>>, leido |-> <<>>, resultado |-> <<>>]

\* the files under data/: <<>> when the file does not exist, else <<content>>
ArchivosIniciales ==
    [pdf_destino |-> <<>>, raw_output |-> <<>>, completo_output |-> <<>>,
     final_output |-> <<>>]

\* no template is running
SinPlantillas ==
    /\ plantilla = PlantillaInicial
    /\ inv = [i \in Invocaciones |-> InvocacionInicial(<<>>)]
    /\ archivos = ArchivosIniciales

\* parsear_fila_fechas has not been called
SinParseo ==
    /\ linea = <<>>
    /\ cola = <<>>
    /\ partes_linea = <<>>
    /\ parseado = ResultadoVacio
    /\ parseado_complete = ResultadoVacio

\* _reorganizar_datos_completo of the complete template has not been called
SinComplete ==
    /\ df_complete = <<>>
    /\ idx_complete = 1
    /\ empleados_complete = <<>>
    /\ empleado_complete = <<>>

\* a call of VidaLaboralSecuenciaTemplate.process_pdf at its first statement:
\* no step started, no script run (return code -1), nothing returned
SecuenciaInicial ==
    [pc |-> "copy", pasos |-> <<>>, extraccion |-> None, scripts |-> {},
     rc_reorganizar |-> -1, rc_cliente |-> -1, resultado |-> <<>>]

\* nothing else is running
\* a PDFExtractor not yet built, a handler and a page not yet called
SinFlujos ==
    /\ sec = SecuenciaInicial
    /\ auto = <<>>
    /\ hojas = <<>>
    /\ proc = <<>>

SinOtros == SinParseo /\ SinComplete /\ SinFlujos

Init ==
    /\ \E filas \in Documentos : InicioScript(filas)
    /\ SinPlantillas
    /\ SinOtros

EnFila == pc = "filas" /\ idx < Len(df)
fila_texto == df[idx + 1]

\* what every iteration does to the program's variables
Avanzar ==
    LET r == PasoFila(empleados, empleado_actual, df, idx)
    IN  /\ empleados' = r[1]
        /\ empleado_actual' = r[2]
        /\ idx' = idx + 1
        /\ UNCHANGED <<df, pc, df_final, df_multiple>>
        /\ UNCHANGED <<vars_plantillas, vars_otros>>

\* "if not fila_texto.strip(): continue"
FilaVacia ==
    /\ EnFila /\ fila_texto = <<>>
    /\ Avanzar
    /\ UNCHANGED <<origen, origen_actual, huerfanas>>

\* "if tiene_fecha:" with "if empleado_actual:"
FilaFechaConEmpleado ==
    /\ EnFila /\ fila_texto # <<>> /\ tiene_fecha(fila_texto)
    /\ empleado_actual # <<>>
    /\ Avanzar
    /\ origen' = Append(origen, origen_actual)
    /\ origen_actual' = -1
    /\ UNCHANGED huerfanas

\* "if tiene_fecha:" with no open worker
FilaFechaSinEmpleado ==
    /\ EnFila /\ fila_texto # <<>> /\ tiene_fecha(fila_texto)
    /\ empleado_actual = <<>>
    /\ Avanzar
    /\ huerfanas' = huerfanas \cup {idx}
    /\ UNCHANGED <<origen, origen_actual>>

\* "if afiliacion or dni:"
FilaEmpleado ==
    /\ EnFila /\ fila_texto # <<>> /\ ~tiene_fecha(fila_texto)
    /\ TieneIdentidad(fila_texto)
    /\ Avanzar
    /\ origen' = IF empleado_actual # <<>> THEN Append(origen, origen_actual) ELSE origen
    /\ origen_actual' = idx
    /\ UNCHANGED huerfanas

\* a row with neither a date group nor an identity
FilaSinDatos ==
    /\ EnFila /\ fila_texto # <<>> /\ ~tiene_fecha(fila_texto)
    /\ ~TieneIdentidad(fila_texto)
    /\ Avanzar
    /\ UNCHANGED <<origen, origen_actual, huerfanas>>

\* the loop ends; "if empleado_actual: ... empleados.append(empleado_actual)"
FinBucle ==
    /\ pc = "filas" /\ idx = Len(df)
    /\ empleados' = FinalDeFilas(empleados, empleado_actual)
    /\ origen' = IF empleado_actual # <<>> THEN Append(origen, origen_actual) ELSE origen
    /\ pc' = "filtrar"
    /\ UNCHANGED <<df, idx, empleado_actual, df_final, df_multiple, origen_actual,
                   huerfanas>>
    /\ UNCHANGED <<vars_plantillas, vars_otros>>

\* pd.DataFrame([]) has no columns: dropna(subset=[...]) raises KeyError
FiltrarSinColumnas ==
    /\ pc = "filtrar" /\ empleados = <<>>
    /\ pc' = "KeyError"
    /\ UNCHANGED <<df, idx, empleados, empleado_actual, df_final, df_multiple,
                   origen, origen_actual, huerfanas>>
    /\ UNCHANGED <<vars_plantillas, vars_otros>>

\* the filter, dropna, the sort and to_csv
Filtrar ==
    /\ pc = "filtrar" /\ empleados # <<>>
    /\ df_final' = Sanear(empleados)
    /\ pc' = "multiples"
    /\ UNCHANGED <<df, idx, empleados, empleado_actual, df_multiple,
                   origen, origen_actual, huerfanas>>
    /\ UNCHANGED <<vars_plantillas, vars_otros>>

\* proceso_completo_cliente.py reads the file and writes the split rows
CrearMultiplesFilas ==
    /\ pc = "multiples"
    /\ df_multiple' = crear_multiples_filas(df_final)
    /\ pc' = "hecho"
    /\ UNCHANGED <<df, idx, empleados, empleado_actual, df_final,
                   origen, origen_actual, huerfanas>>
    /\ UNCHANGED <<vars_plantillas, vars_otros>>

Next ==
    \/ FilaVacia
    \/ FilaFechaConEmpleado
    \/ FilaFechaSinEmpleado
    \/ FilaEmpleado
    \/ FilaSinDatos
    \/ FinBucle
    \/ FiltrarSinColumnas
    \/ Filtrar
    \/ CrearMultiplesFilas

Spec == Init /\ [][Next]_vars

(***************************************************************************)
(* Vocabulary of the properties                                            *)
(***************************************************************************)
\* the loop is over
Terminado == pc # "filas"

\* the rows that took the identity branch: the workers that were opened
Abiertas ==
    {k \in 0..(Len(df) - 1) :
        df[k + 1] # <<>> /\ ~tiene_fecha(df[k + 1]) /\ TieneIdentidad(df[k + 1])}

\* the rows with neither an identity nor a date group
Ruido ==
    {k \in 0..(Len(df) - 1) :
        df[k + 1] = <<>> \/ (~tiene_fecha(df[k + 1]) /\ ~TieneIdentidad(df[k + 1]))}

\* the episode line the worker of saved record j received: the first row
\* already read after its identity row that is not noise, if it is a date row
LineaRecibida(j) ==
    LET sig == {k \in (origen[j] + 1)..(idx - 1) : k \notin Ruido}
    IN  IF sig # {} /\ tiene_fecha(df[Min(sig) + 1]) THEN Min(sig) ELSE -1

\* a line with "ALTA x y" and at least one "BAJA a b c d"
EsCombinada(texto) ==
    ConFechas(texto, "ALTA", 2) # {} /\ ConFechas(texto, "BAJA", 4) # {}

\* the saved records whose worker received a combined line
ConCombinada ==
    {j \in 1..Len(empleados) :
        LineaRecibida(j) # -1 /\ EsCombinada(df[LineaRecibida(j) + 1])}

MismaIdentidad(e, f) ==
    /\ e.Numero_Afiliacion = f.Numero_Afiliacion
    /\ e.Documento_Identificativo = f.Documento_Identificativo
    /\ e.Nombre_Apellidos = f.Nombre_Apellidos

SinEpisodio(e) ==
    /\ e.Situacion = None /\ e.F_Real_Alta = None /\ e.F_Efecto_Alta = None
    /\ e.F_Real_Sit = None /\ e.F_Efecto_Sit = None /\ e.G_C_M = None
    /\ e.T_C = None /\ e.C_T_P = None /\ e.Tipos_AT_IT = None /\ e.IMS = None
    /\ e.Total = None /\ e.Dias_Cot = None

\* record e carries the identity written in an identity row
Porta(e, texto) ==
    \/ extraer_afiliacion(texto) # None
       /\ e.Numero_Afiliacion = extraer_afiliacion(texto)
    \/ extraer_dni(texto) # None
       /\ e.Documento_Identificativo = extraer_dni(texto)

\* the df without its row k (0-based)
Quitar(filas, k) == SubSeq(filas, 1, k) \o SubSeq(filas, k + 2, Len(filas))

(***************************************************************************)
(* C1                                                                      *)
(***************************************************************************)
\* C1: when an open worker receives a line with "ALTA x y" and at least one
\* four-date BAJA group, the reconstruction followed by the ALTA/BAJA split
\* gives exactly two records for that worker, both with its identity: an
\* ALTA record with hire dates (x, y) and no termination dates, and a BAJA
\* record with its four dates; they are two consecutive rows of the final
\* table unless the worker's name is the corrupted sentinel.
C1_AltaYBaja ==
    \A j \in ConCombinada :
        LET t == df[LineaRecibida(j) + 1]
            a == Min(ConFechas(t, "ALTA", 2))
            out == crear_multiples_filas(<<empleados[j]>>)
            id == AbrirEmpleado(df[origen[j] + 1])
        IN  /\ Len(out) = 2
            /\ MismaIdentidad(out[1], id) /\ MismaIdentidad(out[2], id)
            /\ out[1].Situacion = "ALTA"
            /\ out[1].F_Real_Alta = t[a + 1] /\ out[1].F_Efecto_Alta = t[a + 2]
            /\ out[1].F_Real_Sit = None /\ out[1].F_Efecto_Sit = None
            /\ out[2].Situacion = "BAJA"
            /\ out[2].F_Real_Alta # None /\ out[2].F_Efecto_Alta # None
            /\ out[2].F_Real_Sit # None /\ out[2].F_Efecto_Sit # None
            /\ (pc = "hecho" /\ id.Nombre_Apellidos # NombreCorrupto)
               => \E m \in 1..(Len(df_multiple) - 1) :
                     df_multiple[m] = out[1] /\ df_multiple[m + 1] = out[2]

\* a finished run in which a named worker received a combined line
C1_Testigo ==
    /\ pc = "hecho"
    /\ \E j \in ConCombinada : empleados[j].Nombre_Apellidos = "JUAN PEREZ GARCIA"

(***************************************************************************)
(* C2                                                                      *)
(***************************************************************************)
\* the saved records whose worker received a combined line with several
\* four-date BAJA groups
ConVariasBajas ==
    {j \in ConCombinada :
        Cardinality(ConFechas(df[LineaRecibida(j) + 1], "BAJA", 4)) >= 2}

\* C2 as written: the four dates of the BAJA record are (a, b, c, d) of the
\* last four-date BAJA group of the line.
C2_CuatroDeLaUltimaBaja ==
    \A j \in ConVariasBajas :
        LET t == df[LineaRecibida(j) + 1]
            u == Max(ConFechas(t, "BAJA", 4))
            out == crear_multiples_filas(<<empleados[j]>>)
        IN  /\ out[2].F_Real_Alta = t[u + 1] /\ out[2].F_Efecto_Alta = t[u + 2]
            /\ out[2].F_Real_Sit = t[u + 3] /\ out[2].F_Efecto_Sit = t[u + 4]

\* C2: on a line with "ALTA x y" and several four-date BAJA groups, the
\* termination dates of the BAJA record are (c, d) of the last BAJA group,
\* never those of an earlier group, and its hire dates are (x, y) of the ALTA
\* group.
C2_BajaDeLaUltima ==
    \A j \in ConVariasBajas :
        LET t == df[LineaRecibida(j) + 1]
            a == Min(ConFechas(t, "ALTA", 2))
            u == Max(ConFechas(t, "BAJA", 4))
            out == crear_multiples_filas(<<empleados[j]>>)
        IN  /\ out[2].Situacion = "BAJA"
            /\ out[2].F_Real_Sit = t[u + 3] /\ out[2].F_Efecto_Sit = t[u + 4]
            /\ out[2].F_Real_Alta = t[a + 1] /\ out[2].F_Efecto_Alta = t[a + 2]

\* a worker received a line whose last BAJA group differs from the earlier
\* one in every date
C2_Testigo ==
    /\ Terminado
    /\ \E j \in ConVariasBajas :
          LET t == df[LineaRecibida(j) + 1]
              g == ConFechas(t, "BAJA", 4)
          IN  /\ t[Min(g) + 3] # t[Max(g) + 3]
              /\ t[Min(g) + 1] # t[Max(g) + 1]

(***************************************************************************)
(* C3                                                                      *)
(***************************************************************************)
\* C3: the rows "12 345678901", "JUAN PEREZ GARCIA" and
\* "ALTA 10-05-2018 10-05-2018 08 540 1,80 1,50 3,30 1794" give one episode
\* with the name JUAN PEREZ GARCIA, group 08, contract 540, rate 1,80, base
\* 1,50, total 3,30, 1794 days and part-time percentage '100'.
C3_Ejemplo ==
    (Terminado /\ df = <<FilaSoloAfiliacion, FilaNombre, FilaAlta1>>)
    => /\ Len(empleados) = 1
       /\ empleados[1].Numero_Afiliacion = "12 345678901"
       /\ empleados[1].Nombre_Apellidos = "JUAN PEREZ GARCIA"
       /\ empleados[1].Situacion = "ALTA"
       /\ empleados[1].F_Real_Alta = "10-05-2018"
       /\ empleados[1].F_Efecto_Alta = "10-05-2018"
       /\ empleados[1].G_C_M = "08"
       /\ empleados[1].T_C = "540"
       /\ empleados[1].Tipos_AT_IT = "1,80"
       /\ empleados[1].IMS = "1,50"
       /\ empleados[1].Total = "3,30"
       /\ empleados[1].Dias_Cot = "1794"
       /\ empleados[1].C_T_P = "100"

(***************************************************************************)
(* C4                                                                      *)
(***************************************************************************)
\* C4: when a row that yields an identity is read while a worker is open,
\* the open worker is emitted as it is and a new worker is opened with the
\* extracted identity and an empty episode.
C4_IdentidadCierraYAbre ==
    [][(EnFila /\ fila_texto # <<>> /\ TieneIdentidad(fila_texto)
        /\ empleado_actual # <<>>)
       => /\ empleados' = Append(empleados, empleado_actual[1])
          /\ empleado_actual' # <<>>
          /\ empleado_actual'[1].Numero_Afiliacion = extraer_afiliacion(fila_texto)
          /\ empleado_actual'[1].Documento_Identificativo = extraer_dni(fila_texto)
          /\ SinEpisodio(empleado_actual'[1])]_vars

(***************************************************************************)
(* C5                                                                      *)
(***************************************************************************)
\* C5: when the loop is over every worker that was opened has been emitted
\* exactly once, in the order of the identity rows, and a worker still open
\* after the last row is emitted with its episode fields None.
C5_TodosEmitidos ==
    Terminado =>
        /\ Len(empleados) = Cardinality(Abiertas)
        /\ Len(origen) = Len(empleados)
        /\ \A j \in 1..Len(origen) :
              /\ origen[j] \in Abiertas
              /\ MismaIdentidad(empleados[j], AbrirEmpleado(df[origen[j] + 1]))
              /\ \A l \in 1..(j - 1) : origen[l] < origen[j]
        /\ empleado_actual # <<>>
           => /\ empleados[Len(empleados)] = empleado_actual[1]
              /\ origen[Len(origen)] = origen_actual
              /\ SinEpisodio(empleados[Len(empleados)])

\* the loop ended with a worker open and two workers already emitted
C5_Testigo ==
    pc = "filtrar" /\ empleado_actual # <<>> /\ Len(empleados) >= 3

(***************************************************************************)
(* C6 and C7                                                               *)
(***************************************************************************)
\* an episode line is about to be read while no worker is open
Huerfana ==
    EnFila /\ fila_texto # <<>> /\ tiene_fecha(fila_texto) /\ empleado_actual = <<>>

\* the identity rows among the 3 rows before the current one
VentanaIdentidad ==
    {k \in (idx - 3)..(idx - 1) : k >= 0 /\ TieneIdentidad(df[k + 1])}

\* the records among the last 5 saved that have no Situacion and carry the
\* identity of one of those rows
Candidatos ==
    {j \in 1..Len(empleados) :
        /\ j > Len(empleados) - 5
        /\ empleados[j].Situacion = None
        /\ \E k \in VentanaIdentidad : Porta(empleados[j], df[k + 1])}

\* record e holds the fields of the episode ff
Escrito(e, ff) ==
    /\ e.Situacion = ff.Situacion
    /\ e.F_Real_Alta = ff.F_Real_Alta /\ e.F_Efecto_Alta = ff.F_Efecto_Alta
    /\ e.F_Real_Sit = ff.F_Real_Sit /\ e.F_Efecto_Sit = ff.F_Efecto_Sit
    /\ e.G_C_M = ff.G_C_M /\ e.T_C = ff.T_C /\ e.Tipos_AT_IT = ff.Tipos_AT_IT
    /\ e.IMS = ff.IMS /\ e.Total = ff.Total /\ e.Dias_Cot = ff.Dias_Cot

\* C6: an episode line read while no worker is open never adds a record; if
\* an identity row lies within the 3 rows before it and one of the last 5
\* saved records carries that identity and has no Situacion, the episode is
\* written into that record and into no other.
C6_HuerfanaAlSuRegistro ==
    [][Huerfana
       => /\ Len(empleados') = Len(empleados)
          /\ Candidatos # {}
             => \E j \in Candidatos :
                   /\ Escrito(empleados'[j], parsear_fila_fechas(fila_texto))
                   /\ \A l \in 1..Len(empleados) :
                         l # j => empleados'[l] = empleados[l]]_vars

\* C7: an episode line read while no worker is open, for which no identity
\* row of the 3 rows before it is carried by a record without Situacion among
\* the last 5 saved, is skipped: the saved records do not change.
C7_HuerfanaSinIdentidad ==
    [][(Huerfana /\ Candidatos = {})
       => empleados' = empleados /\ empleado_actual' = empleado_actual]_vars

(***************************************************************************)
(* C8                                                                      *)
(***************************************************************************)
\* the noise rows that stand between two identity rows
RuidoEntreBloques ==
    {k \in Ruido : (\E a \in Abiertas : a < k) /\ (\E b \in Abiertas : b > k)}

EsBajaSola(texto) ==
    /\ texto # <<>> /\ ~TieneIdentidad(texto)
    /\ ConFechas(texto, "BAJA", 4) = {1}
    /\ ~tiene_alta(texto)

\* C9: a worker whose identity row is followed by two termination lines is
\* emitted with the termination dates of the second line.
C9_UltimaBaja ==
    Terminado =>
        \A j \in 1..Len(empleados) :
            LET o == origen[j]
            IN  (o + 3 <= Len(df) /\ EsBajaSola(df[o + 2]) /\ EsBajaSola(df[o + 3]))
                => /\ empleados[j].F_Real_Sit = df[o + 3][4]
                   /\ empleados[j].F_Efecto_Sit = df[o + 3][5]

(***************************************************************************)
(* C10                                                                     *)
(***************************************************************************)
\* C10: every record that survives the final filtering has a part-time
\* percentage: '100' when the reconstruction left it unset.
C10_SiempreCTP ==
    pc \in {"multiples", "hecho"}
    => \A j \in 1..Len(df_final) : df_final[j].C_T_P # None

(***************************************************************************)
(* C11 to C14: the final filtering and sort                                *)
(***************************************************************************)
\* the final table has been written
Saneado == pc \in {"multiples", "hecho"}

\* how many times record e stands in a list
Veces(lista, e) == Cardinality({j \in 1..Len(lista) : lista[j] = e})

\* C11: no record of the final table has the corrupted sentinel name, however
\* many records have it and wherever they stand; every record with another
\* name, or none, and some identity field is in the final table as many times
\* as it was saved.
C11_SinNombreCorrupto ==
    Saneado =>
        /\ \A j \in 1..Len(df_final) : df_final[j].Nombre_Apellidos # NombreCorrupto
        /\ \A j \in 1..Len(empleados) :
              (empleados[j].Nombre_Apellidos # NombreCorrupto
               /\ (empleados[j].Numero_Afiliacion # None
                   \/ empleados[j].Documento_Identificativo # None))
              => Veces(df_final, empleados[j]) = Veces(empleados, empleados[j])

\* two sentinel-named records around a record that survives
C11_Testigo ==
    /\ pc = "hecho"
    /\ Len(empleados) = 3
    /\ empleados[1].Nombre_Apellidos = NombreCorrupto
    /\ empleados[2].Nombre_Apellidos # NombreCorrupto
    /\ empleados[3].Nombre_Apellidos = NombreCorrupto
    /\ Len(df_final) = 1

\* C12: the final table is in ascending order of affiliation number, and
\* every record without affiliation number stands after all those with one.
C12_OrdenPorAfiliacion ==
    Saneado =>
        \A i, j \in 1..Len(df_final) :
            i < j =>
                /\ df_final[i].Numero_Afiliacion = None
                   => df_final[j].Numero_Afiliacion = None
                /\ (df_final[i].Numero_Afiliacion # None
                    /\ df_final[j].Numero_Afiliacion # None)
                   => AfilRango(df_final[i].Numero_Afiliacion)
                        <= AfilRango(df_final[j].Numero_Afiliacion)

\* the records were saved as (no number, a larger number, a smaller number)
C12_Testigo ==
    /\ pc = "hecho"
    /\ Len(empleados) = 3 /\ Len(df_final) = 3
    /\ empleados[1].Numero_Afiliacion = None
    /\ empleados[2].Numero_Afiliacion = "28 123456789"
    /\ empleados[3].Numero_Afiliacion = "12 345678901"

\* the affiliation numbers of the saved records, None among them
Claves == {empleados[j].Numero_Afiliacion : j \in 1..Len(empleados)}

\* the records of a list with affiliation number a, in their order
DeClave(lista, a) == SelectSeq(lista, LAMBDA e : e.Numero_Afiliacion = a)

\* C13: the sort is stable: the surviving records with one affiliation number
\* (or with none) stand in the final table in the order they were saved in.
C13_OrdenEstable ==
    Saneado =>
        \A a \in Claves :
            DeClave(df_final, a) = DeClave(QuitarVacios(FiltrarCorrupto(empleados)), a)

\* C14: the final filtering and sort applied to the final table give the
\* final table back, record for record.
C14_Idempotente ==
    Saneado => Sanear(df_final) = df_final


\* ---------------------------------------------------------------------------
\* PDFTemplate.process_pdf (templates/template_base.py): the three abstract
\* steps of a template run inside one try block. A step either returns or
\* raises; what it returns and what it raises is the template's business, so
\* both are drawn from small sets.

\* exceptions the templates of the repository raise in their steps, by class
\* and message (str(e))
Excepciones ==
    { [clase |-> "ValueError", mensaje |-> "No se pudieron extraer empleados del PDF"],
      [clase |-> "FileNotFoundError", mensaje |-> "No such file or directory"],
      [clase |-> "KeyError", mensaje |-> "'Numero_Afiliacion'"],
      [clase |-> "AttributeError", mensaje |-> "'NoneType' object has no attribute 'get'"] }

\* a faulty variant of Capturada: a handler for ValueError only
CapturadaSoloValueError(e) == e.clase = "ValueError"

\* except Exception as e: every class above derives from Exception
Capturada(e) == e.clase \in {"ValueError", "FileNotFoundError", "KeyError", "AttributeError"}

\* the tables extract_data may return
TablasExtraidas == { <<>>, <<FilaNombre>>, <<FilaJuan>>, <<FilaJuan, FilaAlta1>> }

\* the dictionaries validate_data may return: is_valid True, False, or no
\* such key (validation.get('is_valid', True) then reads True)
Validaciones == { [is_valid |-> "True"], [is_valid |-> "False"], [is_valid |-> None] }

\* the tables transform_data may return
TablasTransformadas == { Reconstruir(t) : t \in TablasExtraidas }

\* the dictionary of the except clause
ResultadoError(e) == [success |-> "False", error |-> e.mensaje, data |-> <<>>,
                      validation |-> <<>>, raw_data |-> <<>>]

\* the dictionary returned at the end of the try block
ResultadoExito(df_transformed, validation, df_raw) ==
    [success |-> "True", error |-> None, data |-> <<df_transformed>>,
     validation |-> validation, raw_data |-> df_raw]

\* a step raises e: the except clause returns the error dictionary, and an
\* exception it does not handle leaves process_pdf
Lanzar(e) ==
    IF Capturada(e)
    THEN plantilla' = [plantilla EXCEPT !.pc = "return", !.resultado = <<ResultadoError(e)>>]
    ELSE plantilla' = [plantilla EXCEPT !.pc = "raise"]

\* df_raw = self.extract_data(pdf_path)
ExtractData ==
    /\ plantilla.pc = "extract_data"
    /\ \/ \E e \in Excepciones : Lanzar(e)
       \/ \E t \in TablasExtraidas :
            plantilla' = [plantilla EXCEPT !.pc = "validate_data", !.df_raw = <<t>>]
    /\ UNCHANGED <<vars_script, inv, archivos, vars_otros>>

\* validation = self.validate_data(df_raw); a False is_valid is only logged
ValidateData ==
    /\ plantilla.pc = "validate_data"
    /\ \/ \E e \in Excepciones : Lanzar(e)
       \/ \E v \in Validaciones :
            plantilla' = [plantilla EXCEPT !.pc = "transform_data", !.validation = <<v>>]
    /\ UNCHANGED <<vars_script, inv, archivos, vars_otros>>

\* df_transformed = self.transform_data(df_raw); return {...}
TransformData ==
    /\ plantilla.pc = "transform_data"
    /\ \/ \E e \in Excepciones : Lanzar(e)
       \/ \E t \in TablasTransformadas :
            plantilla' = [plantilla EXCEPT
                            !.pc = "return",
                            !.resultado = <<ResultadoExito(t, plantilla.validation,
                                                           plantilla.df_raw)>>]
    /\ UNCHANGED <<vars_script, inv, archivos, vars_otros>>

InitPlantilla ==
    /\ InicioScript(<<>>)
    /\ SinPlantillas
    /\ SinOtros

NextPlantilla == ExtractData \/ ValidateData \/ TransformData

SpecPlantilla == InitPlantilla /\ [][NextPlantilla]_vars

\* ---------------------------------------------------------------------------
\* VidaLaboralSecuenciaTemplate.process_pdf (templates/vida_laboral_secuencia.py):
\* the call writes what it extracted to a file of fixed name, runs the two
\* scripts as subprocesses, which read and write files of fixed names, and
\* reads the last file back. Every object of the class uses the same names,
\* so the files are shared by the calls that run at the same time. A script
\* reads its input file at one moment and writes its output file at a later
\* one. The client's spreadsheet is optional and absent here, so the second
\* script writes the split rows as they are.

\* the documents the calls are given (the table the extractor finds in each)
DocumentosPDF == { <<>>, <<FilaNombre>>, <<FilaJuan, FilaAlta1>>, <<FilaAna, FilaAltaBaja>> }

\* the dictionaries the call returns
Fallo(mensaje) == [success |-> "False", error |-> mensaje, data |-> <<>>]
Exito(datos) == [success |-> "True", error |-> None, data |-> <<datos>>]

\* return {...} inside the try block: the finally clause runs next
Devolver(i, r) == inv' = [inv EXCEPT ![i].pc = "finally", ![i].resultado = <<r>>]

\* shutil.copy(pdf_path, pdf_destino)
Copiar(i) ==
    /\ inv[i].pc = "copy"
    /\ archivos' = [archivos EXCEPT !.pdf_destino = <<inv[i].pdf>>]
    /\ inv' = [inv EXCEPT ![i].pc = "extract_all_tables"]
    /\ UNCHANGED <<vars_script, plantilla, vars_otros>>

\* df_raw = self.extractor.extract_all_tables(pdf_path); if df_raw.empty: ...
Extraer(i) ==
    /\ inv[i].pc = "extract_all_tables"
    /\ IF inv[i].pdf = <<>>
       THEN Devolver(i, Fallo("No se pudieron extraer datos del PDF."))
       ELSE inv' = [inv EXCEPT ![i].pc = "to_csv", ![i].df_raw = inv[i].pdf]
    /\ UNCHANGED <<vars_script, plantilla, archivos, vars_otros>>

\* df_limpio.to_csv(self.raw_output, ...)
GuardarBruto(i) ==
    /\ inv[i].pc = "to_csv"
    /\ archivos' = [archivos EXCEPT !.raw_output = <<inv[i].df_raw>>]
    /\ inv' = [inv EXCEPT ![i].pc = "reorganizar_lee"]
    /\ UNCHANGED <<vars_script, plantilla, vars_otros>>

\* subprocess reorganizar_datos_completo.py: df = pd.read_csv(input_file);
\* a missing file ends the script with an error and returncode != 0
ReorganizarLee(i) ==
    /\ inv[i].pc = "reorganizar_lee"
    /\ IF archivos.raw_output = <<>>
       THEN Devolver(i, Fallo("Error en reorganización de datos"))
       ELSE inv' = [inv EXCEPT ![i].pc = "reorganizar_escribe",
                               ![i].leido = archivos.raw_output[1]]
    /\ UNCHANGED <<vars_script, plantilla, archivos, vars_otros>>

\* the rest of the script: the row loop, the final filters and
\* df_final.to_csv(output_file); with no worker found it ends in KeyError
ReorganizarEscribe(i) ==
    /\ inv[i].pc = "reorganizar_escribe"
    /\ IF Reconstruir(inv[i].leido) = <<>>
       THEN /\ Devolver(i, Fallo("Error en reorganización de datos"))
            /\ UNCHANGED archivos
       ELSE /\ archivos' = [archivos EXCEPT
                              !.completo_output = <<Sanear(Reconstruir(inv[i].leido))>>]
            /\ inv' = [inv EXCEPT ![i].pc = "cliente_lee"]
    /\ UNCHANGED <<vars_script, plantilla, vars_otros>>

\* subprocess proceso_completo_cliente.py: crear_multiples_filas reads
\* ARCHIVO_NUESTRO; when it does not exist main returns and writes nothing
ClienteLee(i) ==
    /\ inv[i].pc = "cliente_lee"
    /\ IF archivos.completo_output = <<>>
       THEN inv' = [inv EXCEPT ![i].pc = "read_csv"]
       ELSE inv' = [inv EXCEPT ![i].pc = "cliente_escribe",
                               ![i].leido = archivos.completo_output[1]]
    /\ UNCHANGED <<vars_script, plantilla, archivos, vars_otros>>

\* main: df_final = df_multiple; df_final.to_csv(ARCHIVO_FINAL, ...)
ClienteEscribe(i) ==
    /\ inv[i].pc = "cliente_escribe"
    /\ archivos' = [archivos EXCEPT !.final_output = <<crear_multiples_filas(inv[i].leido)>>]
    /\ inv' = [inv EXCEPT ![i].pc = "read_csv"]
    /\ UNCHANGED <<vars_script, plantilla, vars_otros>>

\* if not self.final_output.exists(): ...; df_final = pd.read_csv(...); return
LeerFinal(i) ==
    /\ inv[i].pc = "read_csv"
    /\ IF archivos.final_output = <<>>
       THEN Devolver(i, Fallo("El script no generó el archivo final esperado"))
       ELSE Devolver(i, Exito(archivos.final_output[1]))
    /\ UNCHANGED <<vars_script, plantilla, archivos, vars_otros>>

\* finally: self.raw_output.unlink(missing_ok=True)
Limpiar(i) ==
    /\ inv[i].pc = "finally"
    /\ archivos' = [archivos EXCEPT !.raw_output = <<>>]
    /\ inv' = [inv EXCEPT ![i].pc = "return"]
    /\ UNCHANGED <<vars_script, plantilla, vars_otros>>

\* two calls, each on a document of its own
InitConcurrente ==
    /\ InicioScript(<<>>)
    /\ plantilla = PlantillaInicial
    /\ \E a, b \in DocumentosPDF :
         /\ a # b
         /\ inv = [i \in Invocaciones |-> InvocacionInicial(IF i = 1 THEN a ELSE b)]
    /\ archivos = ArchivosIniciales
    /\ SinOtros

NextConcurrente ==
    \E i \in Invocaciones :
        \/ Copiar(i)
        \/ Extraer(i)
        \/ GuardarBruto(i)
        \/ ReorganizarLee(i)
        \/ ReorganizarEscribe(i)
        \/ ClienteLee(i)
        \/ ClienteEscribe(i)
        \/ LeerFinal(i)
        \/ Limpiar(i)

SpecConcurrente == InitConcurrente /\ [][NextConcurrente]_vars

\* ---------------------------------------------------------------------------
\* C15: on an input with no rows, or whose rows carry no identity, the
\* reconstruction and the sanitizing complete without raising and the output
\* is empty. (The script builds pd.DataFrame([]) from the empty list of
\* workers; that frame has no columns, and dropna(subset=...) raises
\* KeyError.)
SinIdentidades == \A k \in 1..Len(df) : ~TieneIdentidad(df[k])

C15_VacioSinError ==
    SinIdentidades =>
        /\ pc # "KeyError"
        /\ pc \in {"multiples", "hecho"} => df_final = <<>>


\* ---------------------------------------------------------------------------
\* C16: two calls that run at the same time on different documents do not
\* interfere: whatever the interleaving of their steps, each call returns
\* exactly the records derived from its own document.

\* what a call running alone returns for the document pdf
ResultadoSolo(pdf) ==
    IF pdf = <<>>
    THEN Fallo("No se pudieron extraer datos del PDF.")
    ELSE IF Reconstruir(pdf) = <<>>
         THEN Fallo("Error en reorganización de datos")
         ELSE Exito(crear_multiples_filas(Sanear(Reconstruir(pdf))))

C16_SinInterferencia ==
    \A i \in Invocaciones :
        inv[i].resultado # <<>> =>
            /\ inv[i].resultado[1].success = ResultadoSolo(inv[i].pdf).success
            /\ inv[i].resultado[1].data = ResultadoSolo(inv[i].pdf).data

\* ---------------------------------------------------------------------------
\* C17: process_pdf of a template never raises. If the extraction, the
\* validation or the transformation raises, it returns success False with the
\* error message; otherwise it returns success True with the transformed
\* data, and a validation with is_valid False does not stop the run.
\* In the model: the call never ends by raising; the step taken from a stage
\* either goes on to the next stage, or returns the error dictionary with no
\* data, or (from the transformation only) returns success with a transformed
\* table, the table extracted and the validation found, whatever is_valid is.
PasoDePlantilla ==
    \/ /\ plantilla.pc = "extract_data"
       /\ plantilla'.pc = "validate_data"
       /\ plantilla'.df_raw # <<>>
    \/ /\ plantilla.pc = "validate_data"
       /\ plantilla'.pc = "transform_data"
       /\ plantilla'.validation # <<>>
       /\ plantilla'.df_raw = plantilla.df_raw
    \/ /\ plantilla.pc = "transform_data"
       /\ plantilla'.pc = "return"
       /\ plantilla'.resultado[1].success = "True"
       /\ plantilla'.resultado[1].data # <<>>
       /\ plantilla'.resultado[1].data[1] \in TablasTransformadas
       /\ plantilla'.resultado[1].validation = plantilla.validation
       /\ plantilla'.resultado[1].raw_data = plantilla.df_raw
    \/ /\ plantilla'.pc = "return"
       /\ plantilla'.resultado[1].success = "False"
       /\ plantilla'.resultado[1].error \in { e.mensaje : e \in Excepciones }
       /\ plantilla'.resultado[1].data = <<>>

C17_NuncaLanza ==
    /\ [](plantilla.pc # "raise")
    /\ [](plantilla.pc = "return" <=> plantilla.resultado # <<>>)
    /\ [][PasoDePlantilla]_plantilla

\* a call returned success although the validation said is_valid False
C17_Testigo ==
    /\ plantilla.pc = "return"
    /\ plantilla.resultado[1].success = "True"
    /\ plantilla.resultado[1].validation[1].is_valid = "False"
    /\ plantilla.resultado[1].data[1] # <<>>


\* ---------------------------------------------------------------------------
\* C18: a row that yields an identity opens a new worker also when the same
\* row holds ALTA or BAJA followed by a date: the identity is not discarded
\* and the episode is not attributed to the previous worker. In the model:
\* after such a row the worker just opened (still open, or saved last)
\* carries the identity of the row, and the records before it are the ones
\* saved so far followed by the worker that was open, unchanged.
FilaIdentidadConFecha ==
    EnFila /\ fila_texto # <<>> /\ TieneIdentidad(fila_texto) /\ tiene_fecha(fila_texto)

Anteriores == IF empleado_actual = <<>> THEN empleados
              ELSE Append(empleados, empleado_actual[1])

C18_IdentidadConFechaAbre ==
    [][FilaIdentidadConFecha
       => \/ /\ empleado_actual' # <<>>
             /\ Porta(empleado_actual'[1], fila_texto)
             /\ empleados' = Anteriores
          \/ /\ empleado_actual' = <<>>
             /\ Len(empleados') = Len(Anteriores) + 1
             /\ SubSeq(empleados', 1, Len(Anteriores)) = Anteriores
             /\ Porta(empleados'[Len(empleados')], fila_texto)]_vars

\* ---------------------------------------------------------------------------
\* C19: when more than one identity row lies within the 3 rows before an
\* episode line read with no worker open, the retroactive association uses
\* the closest one: a record the line modifies carries the identity of the
\* last identity row of the window.
C19_LaMasCercana ==
    [][(Huerfana /\ Cardinality(VentanaIdentidad) > 1)
       => /\ Len(empleados') = Len(empleados)
          /\ \A j \in 1..Len(empleados) :
                empleados'[j] # empleados[j]
                => Porta(empleados[j], df[Max(VentanaIdentidad) + 1])]_vars

\* ---------------------------------------------------------------------------
\* C20: the retroactive attachment only modifies a record whose affiliation
\* number or national ID equals, as a value that is present, the one of the
\* identity row found in the window (the first one the scan meets); an
\* episode is never written into the record of a different worker, also when
\* the national ID is absent on both sides.
C20_SoloSuRegistro ==
    [][Huerfana
       => /\ Len(empleados') = Len(empleados)
          /\ \A j \in 1..Len(empleados) :
                empleados'[j] # empleados[j]
                => /\ VentanaIdentidad # {}
                   /\ Porta(empleados[j], df[Min(VentanaIdentidad) + 1])]_vars


\* ---------------------------------------------------------------------------
\* parsear_fila_fechas on its own: the episode lines it is given, and what it
\* does with the tokens that follow the dates.

\* VidaLaboralCompleteTemplate._parsear_fila_fechas: the "if len(partes) >= 6"
\* block of its three branches. The part-time pattern is the strict one in
\* all of them, and there is no else branch: without a pivot at index 2 or
\* more the part-time percentage and the four tail fields stay absent.
CamposColaComplete(partes, r) ==
    IF Len(partes) < 6 THEN r
    ELSE
      LET n == Len(partes)
          pivotes == {i \in 1..n : EsPivote(partes[i])}
          idx_tipos == IF pivotes = {} THEN -1 ELSE Min(pivotes) - 1
          en(k) == IF k < n THEN partes[k + 1] ELSE None
          base == [r EXCEPT !.G_C_M = IF partes[1] \in Digitos THEN partes[1] ELSE None,
                            !.T_C = partes[2]]
      IN  IF idx_tipos >= 2
          THEN [base EXCEPT
                  !.C_T_P = IF idx_tipos > 2 /\ EsCTPEstricto(partes[3])
                            THEN partes[3] ELSE "100",
                  !.Tipos_AT_IT = en(idx_tipos),
                  !.IMS = en(idx_tipos + 1),
                  !.Total = en(idx_tipos + 2),
                  !.Dias_Cot = en(idx_tipos + 3)]
          ELSE base

\* the text matched by the group (.+) that follows the dates, in the branch
\* the line takes; <<>> when the pattern of the branch does not match
TextoDatos(texto) ==
    IF tiene_alta(texto) /\ tiene_baja(texto)
    THEN LET p == Max({i \in 1..Len(texto) : texto[i] = "BAJA"})
         IN  IF p \in ConFechas(texto, "BAJA", 4) /\ p + 4 < Len(texto)
             THEN SubSeq(texto, p + 5, Len(texto)) ELSE <<>>
    ELSE IF tiene_alta(texto)
    THEN LET altas == {i \in ConFechas(texto, "ALTA", 2) : i + 2 < Len(texto)}
         IN  IF altas = {} THEN <<>> ELSE SubSeq(texto, Min(altas) + 3, Len(texto))
    ELSE IF tiene_baja(texto)
    THEN LET bajas == {i \in ConFechas(texto, "BAJA", 4) : i + 4 < Len(texto)}
         IN  IF bajas = {} THEN <<>> ELSE SubSeq(texto, Min(bajas) + 5, Len(texto))
    ELSE <<>>

\* partes = texto_datos.split() after the re.sub that removes the CLV code
PartesDatos(texto) ==
    IF tiene_alta(texto) /\ ~tiene_baja(texto)
    THEN QuitarCLVAlfanum(TextoDatos(texto))
    ELSE QuitarCLVLetras(TextoDatos(texto))

\* the dates of a line: the fields the three branches set before the tail
FechasDe(texto) ==
    [parsear_fila_fechas(texto) EXCEPT
        !.G_C_M = None, !.T_C = None, !.C_T_P = None, !.Tipos_AT_IT = None,
        !.IMS = None, !.Total = None, !.Dias_Cot = None]

\* VidaLaboralCompleteTemplate._parsear_fila_fechas: the dates are read as in
\* the script; the ALTA and the BAJA branch both remove a trailing token of
\* [A-Z0-9]{2,4}, the ALTA/BAJA branch removes letter-first codes
parsear_fila_fechas_complete(texto) ==
    IF TextoDatos(texto) = <<>> THEN FechasDe(texto)
    ELSE IF tiene_alta(texto) /\ tiene_baja(texto)
    THEN CamposColaComplete(QuitarCLVLetras(TextoDatos(texto)), FechasDe(texto))
    ELSE CamposColaComplete(QuitarCLVAlfanum(TextoDatos(texto)), FechasDe(texto))

\* the keyword and dates that open a hire, a termination and a combined line
Cabeceras ==
    { <<"ALTA", "10-05-2018", "10-05-2018">>,
      <<"BAJA", "10-05-2018", "10-05-2018", "01-02-2019", "01-02-2019">>,
      <<"ALTA", "10-05-2018", "10-05-2018",
        "BAJA", "03-03-2020", "03-03-2020", "15-07-2024", "24-07-2024">> }

\* the start of a tail: contribution group and contract type, or one of them
Comienzos == { <<"08", "540">>, <<"08">> }

\* tokens that may stand between the contract type and the rates
TokensEntre == {"250", "0,250", "1,5", "10"}
MaxEntre == 2

\* rate, base, total and days: with a pivot, without one, without the days
Tasas == { <<"1,80", "1,50", "3,30", "1794">>,
           <<"1,5", "0,250", "300", "10">>,
           <<"1,80", "1,50", "3,30">> }

\* the codes that may end a line
Codigos == {"FE4", "7VH"}
MaxCodigos == 2

SecuenciasHasta(S, n) == UNION {[1..k -> S] : k \in 0..n}

Lineas ==
    { c \o g \o e \o t \o v :
        c \in Cabeceras, g \in Comienzos, e \in SecuenciasHasta(TokensEntre, MaxEntre),
        t \in Tasas, v \in SecuenciasHasta(Codigos, MaxCodigos) }

\* resultado = parsear_fila_fechas(fila_texto)
Parsear ==
    /\ parseado.Situacion = None
    /\ cola' = TextoDatos(linea)
    /\ partes_linea' = PartesDatos(linea)
    /\ parseado' = parsear_fila_fechas(linea)
    /\ parseado_complete' = parsear_fila_fechas_complete(linea)
    /\ UNCHANGED <<vars_script, vars_plantillas, linea, vars_complete, vars_flujos>>

InitParseo ==
    /\ InicioScript(<<>>)
    /\ SinPlantillas
    /\ linea \in Lineas
    /\ cola = <<>>
    /\ partes_linea = <<>>
    /\ parseado = ResultadoVacio
    /\ parseado_complete = ResultadoVacio
    /\ SinComplete
    /\ SinFlujos

NextParseo == Parsear

SpecParseo == InitParseo /\ [][NextParseo]_vars

\* the line has been parsed
Parseada == parseado.Situacion # None

\* ---------------------------------------------------------------------------
\* C21: before the fields are split, a trailing token of 2 to 4 characters is
\* removed from a combined or termination tail exactly when it contains at
\* least one letter (a code such as 7VH is removed, a last token of digits
\* only is kept), and from a hire-only tail whenever it is a token of 2 to 4
\* characters of [A-Z0-9].

\* a token of 2 to 4 characters of [A-Z0-9] with at least one letter
EsCodigoConLetra(t) == t \in AlfaNum \ Digitos /\ Len(t) \in 2..4

EsPrefijo(a, b) == Len(a) <= Len(b) /\ a = SubSeq(b, 1, Len(a))

C21_CodigoFinal ==
    (Parseada /\ Len(cola) >= 2) =>
        LET u == cola[Len(cola)]
        IN  IF parseado.Situacion = "ALTA"
            THEN partes_linea = (IF EsCodigoAlfanum(u) THEN SinUltimo(cola) ELSE cola)
            ELSE /\ EsPrefijo(partes_linea, cola)
                 /\ Len(partes_linea) < Len(cola) <=> EsCodigoConLetra(u)


\* ---------------------------------------------------------------------------
\* C22: for every tail in which a rate pivot is found after the contract
\* type, the part-time percentage is the token between contract type and
\* pivot if and only if there is exactly one such token and it is an integer
\* of 3 or 4 digits or a decimal "0,ddd"; in every other case it is "100".
\* The rule is the same for hire, termination and combined lines.

\* the position in the split tail of the first token of pivot shape, or 0
PrimerPivote ==
    LET pivotes == {i \in 1..Len(partes_linea) : EsPivote(partes_linea[i])}
    IN  IF pivotes = {} THEN 0 ELSE Min(pivotes)

\* the part-time percentage an open worker receives from the line: the row
\* loop writes "100" when the parser returns none
CTPRecibido == IF parseado.C_T_P # None THEN parseado.C_T_P ELSE "100"

C22_PorcentajeEntre ==
    (Parseada /\ PrimerPivote >= 3) =>
        CTPRecibido = (IF PrimerPivote = 4 /\ EsCTPEstricto(partes_linea[3])
                       THEN partes_linea[3] ELSE "100")


\* ---------------------------------------------------------------------------
\* C23: for every tail, of any length and for the three kinds of line, in
\* which no token has the pivot shape (digits, comma, exactly two digits),
\* the last four tokens are taken as rate, base, total and days contributed,
\* in that order, and the part-time percentage is "100"; whenever a pivot
\* token exists, the four tail fields are the pivot and the three tokens
\* after it.

\* the tokens VidaLaboralCompleteTemplate._parsear_fila_fechas splits
PartesDatosComplete(texto) ==
    IF tiene_alta(texto) /\ tiene_baja(texto)
    THEN QuitarCLVLetras(TextoDatos(texto))
    ELSE QuitarCLVAlfanum(TextoDatos(texto))

\* the position in partes of the first token of pivot shape, or 0
PivoteEn(partes) ==
    LET pivotes == {i \in 1..Len(partes) : EsPivote(partes[i])}
    IN  IF pivotes = {} THEN 0 ELSE Min(pivotes)

\* the four tail fields of a dictionary are the tokens of partes from q on
CuatroDesde(r, partes, q) ==
    LET en(k) == IF k \in 1..Len(partes) THEN partes[k] ELSE None
    IN  /\ r.Tipos_AT_IT = en(q)
        /\ r.IMS = en(q + 1)
        /\ r.Total = en(q + 2)
        /\ r.Dias_Cot = en(q + 3)

\* without a pivot the last four tokens and "100" (which the row loop writes
\* when the parser returns no percentage), with a pivot the four from it on
ColaSegunPivote(r, partes) ==
    IF PivoteEn(partes) = 0
    THEN /\ Len(partes) >= 4 => CuatroDesde(r, partes, Len(partes) - 3)
         /\ r.C_T_P \in {"100", None}
    ELSE CuatroDesde(r, partes, PivoteEn(partes))

C23_UltimosCuatro ==
    Parseada =>
        /\ ColaSegunPivote(parseado, partes_linea)
        /\ ColaSegunPivote(parseado_complete, PartesDatosComplete(linea))


\* ---------------------------------------------------------------------------
\* C25: after the ALTA/BAJA split no record has the status "ALTA/BAJA"; each
\* input record with that status is replaced by an ALTA record with the
\* termination dates cleared, immediately followed by a BAJA record with all
\* other fields unchanged; every other record is kept unchanged; the relative
\* order is preserved; n input records of which k are combined give n + k
\* output records.

\* the combined records among the first j of the split's input
CombinadasHasta(j) == {l \in 1..j : df_final[l].Situacion = "ALTA/BAJA"}

\* where input record j starts in the output
PosicionDe(j) == j + Cardinality(CombinadasHasta(j - 1))

C25_UnaFilaPorSituacion ==
    pc = "hecho" =>
        /\ Len(df_multiple) = Len(df_final) + Cardinality(CombinadasHasta(Len(df_final)))
        /\ \A m \in 1..Len(df_multiple) : df_multiple[m].Situacion # "ALTA/BAJA"
        /\ \A j \in 1..Len(df_final) :
              LET row == df_final[j]
                  m == PosicionDe(j)
              IN  IF row.Situacion = "ALTA/BAJA"
                  THEN /\ df_multiple[m] = [row EXCEPT !.Situacion = "ALTA",
                                                       !.F_Real_Sit = None,
                                                       !.F_Efecto_Sit = None]
                       /\ df_multiple[m + 1] = [row EXCEPT !.Situacion = "BAJA"]
                       /\ row.F_Real_Sit # None
                  ELSE df_multiple[m] = row

\* a split whose input has a combined record followed by another record
C25_Testigo ==
    /\ pc = "hecho"
    /\ \E j \in 1..(Len(df_final) - 1) :
          /\ df_final[j].Situacion = "ALTA/BAJA"
          /\ df_final[j + 1].Situacion # "ALTA/BAJA"
          /\ df_multiple[j + 2] = df_final[j + 1]


\* ---------------------------------------------------------------------------
\* VidaLaboralCompleteTemplate._reorganizar_datos_completo
\* (templates/vida_laboral_complete.py): the row loop of the complete
\* template. It reads the identity with the same three functions as the
\* script (its _extraer_afiliacion, _extraer_dni and _limpiar_nombre repeat
\* them), parses every row, the identity row too, while a worker is open, and
\* splits a combined line into two records itself.

\* _crear_empleado_vacio()
EmpleadoVacio ==
    [Codigo_Cliente |-> None, Nombre_Apellidos |-> None, DNI |-> None,
     Numero_Afiliacion |-> None, Situacion |-> None,
     F_Real_Alta |-> None, F_Efecto_Alta |-> None,
     F_Real_Sit |-> None, F_Efecto_Sit |-> None,
     G_C_M |-> None, T_C |-> None, C_T_P |-> None,
     Tipos_AT_IT |-> None, IMS |-> None, Total |-> None, Dias_Cot |-> None]

\* "Fila ALTA": a copy of the open worker with seven fields written
EmpAlta(emp, ff) ==
    [emp EXCEPT !.Situacion = "ALTA",
                !.F_Real_Alta = ff.F_Real_Alta, !.F_Efecto_Alta = ff.F_Efecto_Alta,
                !.G_C_M = ff.G_C_M, !.T_C = ff.T_C, !.C_T_P = ff.C_T_P]

\* "Fila BAJA": a copy of the open worker with every episode field written
EmpBaja(emp, ff) ==
    [emp EXCEPT !.Situacion = "BAJA",
                !.F_Real_Alta = ff.F_Real_Alta, !.F_Efecto_Alta = ff.F_Efecto_Alta,
                !.F_Real_Sit = ff.F_Real_Sit, !.F_Efecto_Sit = ff.F_Efecto_Sit,
                !.G_C_M = ff.G_C_M, !.T_C = ff.T_C, !.C_T_P = ff.C_T_P,
                !.Tipos_AT_IT = ff.Tipos_AT_IT, !.IMS = ff.IMS,
                !.Total = ff.Total, !.Dias_Cot = ff.Dias_Cot]

\* "Actualizar datos del empleado actual" for an ALTA or a BAJA line: the
\* termination dates are written for a BAJA only
ActualizarEmpleado(emp, ff) ==
    [emp EXCEPT !.Situacion = ff.Situacion,
                !.F_Real_Alta = ff.F_Real_Alta, !.F_Efecto_Alta = ff.F_Efecto_Alta,
                !.F_Real_Sit = IF ff.Situacion = "BAJA" THEN ff.F_Real_Sit ELSE @,
                !.F_Efecto_Sit = IF ff.Situacion = "BAJA" THEN ff.F_Efecto_Sit ELSE @,
                !.G_C_M = ff.G_C_M, !.T_C = ff.T_C, !.C_T_P = ff.C_T_P,
                !.Tipos_AT_IT = ff.Tipos_AT_IT, !.IMS = ff.IMS,
                !.Total = ff.Total, !.Dias_Cot = ff.Dias_Cot]

\* the worker left open after a combined line: an empty one with the
\* identity numbers of the current row, if it has any
EmpleadoReiniciado(texto) ==
    [EmpleadoVacio EXCEPT !.Numero_Afiliacion = extraer_afiliacion(texto),
                          !.DNI = extraer_dni(texto)]

\* "Guardar empleado anterior si existe": a worker without name is dropped
GuardarSiTieneNombre(lista, actual) ==
    IF actual # <<>> /\ actual[1].Nombre_Apellidos # None
    THEN Append(lista, actual[1]) ELSE lista

\* the open worker after the identity part of the loop body
TrasIdentidad(actual, texto) ==
    IF TieneIdentidad(texto)
    THEN <<[EmpleadoVacio EXCEPT
              !.Numero_Afiliacion = extraer_afiliacion(texto),
              !.DNI = extraer_dni(texto),
              !.Nombre_Apellidos = limpiar_nombre(texto, extraer_dni(texto))]>>
    ELSE actual

\* one pass of "for _, row in df.iterrows()"
FilaComplete ==
    /\ idx_complete \in 1..Len(df_complete)
    /\ LET texto == df_complete[idx_complete]
           guardados == IF TieneIdentidad(texto)
                        THEN GuardarSiTieneNombre(empleados_complete, empleado_complete)
                        ELSE empleados_complete
           actual == TrasIdentidad(empleado_complete, texto)
           ff == parsear_fila_fechas_complete(texto)
       IN  IF actual = <<>> \/ ff.Situacion = None
           THEN /\ empleados_complete' = guardados
                /\ empleado_complete' = actual
           ELSE IF ff.Situacion = "ALTA/BAJA"
           THEN /\ empleados_complete' =
                      guardados \o <<EmpAlta(actual[1], ff), EmpBaja(actual[1], ff)>>
                /\ empleado_complete' = <<EmpleadoReiniciado(texto)>>
           ELSE /\ empleados_complete' = guardados
                /\ empleado_complete' = <<ActualizarEmpleado(actual[1], ff)>>
    /\ idx_complete' = idx_complete + 1
    /\ UNCHANGED <<vars_script, vars_plantillas, vars_parseo, df_complete,
                   vars_flujos>>

\* "Agregar último empleado"
FinComplete ==
    /\ idx_complete = Len(df_complete) + 1
    /\ empleados_complete' = GuardarSiTieneNombre(empleados_complete, empleado_complete)
    /\ idx_complete' = idx_complete + 1
    /\ UNCHANGED <<vars_script, vars_plantillas, vars_parseo, df_complete,
                   empleado_complete, vars_flujos>>

\* the rows and the tables the complete template is run on
FilasComplete == {FilaJuan, FilaSoloAfiliacion, FilaAna, FilaAnaAlta, FilaNombre,
                  FilaAlta1, FilaBaja1, FilaAltaBaja}
MaxFilasComplete == 3

InitComplete ==
    /\ InicioScript(<<>>)
    /\ SinPlantillas
    /\ SinParseo
    /\ df_complete \in UNION {[1..n -> FilasComplete] : n \in 0..MaxFilasComplete}
    /\ idx_complete = 1
    /\ empleados_complete = <<>>
    /\ empleado_complete = <<>>
    /\ SinFlujos

NextComplete == FilaComplete \/ FinComplete

SpecComplete == InitComplete /\ [][NextComplete]_vars

\* ---------------------------------------------------------------------------
\* C24: in the complete template every record emitted with status ALTA by
\* the split of a combined ALTA/BAJA line has empty termination dates
\* (F_Real_Sit, F_Efecto_Sit), whatever episode lines, an earlier BAJA line
\* included, were merged into the open worker before the combined line.

\* the row about to be read is a combined line and a worker is open for it
CombinadaEnComplete ==
    /\ idx_complete \in 1..Len(df_complete)
    /\ parsear_fila_fechas_complete(df_complete[idx_complete]).Situacion = "ALTA/BAJA"
    /\ (empleado_complete # <<>> \/ TieneIdentidad(df_complete[idx_complete]))

C24_AltaSinFechasDeBaja ==
    [][CombinadaEnComplete
       => LET n == Len(empleados_complete')
          IN  /\ n >= Len(empleados_complete) + 2
              /\ empleados_complete'[n - 1].Situacion = "ALTA"
              /\ empleados_complete'[n].Situacion = "BAJA"
              /\ empleados_complete'[n - 1].F_Real_Sit = None
              /\ empleados_complete'[n - 1].F_Efecto_Sit = None]_vars

\* ---------------------------------------------------------------------
\* VidaLaboralSecuenciaTemplate.process_pdf, one call, statement by
\* statement, with everything its environment can answer: files left by
\* earlier runs, a PDF without tables, a missing script, a script that
\* fails, a library call that raises.
\* ---------------------------------------------------------------------

\* the three steps named in the class docstring, in its order
PasosSecuencia == <<"extraccion", "reorganizar", "cliente">>

\* a file of data/ as an earlier run may have left it
ArchivoPrevio == {<<>>, <<"previo">>}

\* what subprocess.run can report as result.returncode
CodigosDeSalida == {0, 1}

\* the test of result.returncode left out: any exit code counts as success
CodigoIgnorado(rc) == TRUE

\* result.returncode != 0 is the failure branch
CodigoCorrecto(rc) == rc = 0

\* the finally clause without its unlink
SinDesenlazar(a) == a

\* self.raw_output.unlink(missing_ok=True)
Desenlazar(a) == [a EXCEPT !.raw_output = <<>>]

\* return {...} or an except clause: the finally clause runs next
SecDevolver(r) == [sec EXCEPT !.pc = "finally", !.resultado = <<r>>]

\* shutil.copy(pdf_path, pdf_destino); FileNotFoundError when the upload is gone
SecCopiar ==
    /\ sec.pc = "copy"
    /\ \/ /\ archivos' = [archivos EXCEPT !.pdf_destino = <<"propio">>]
          /\ sec' = [sec EXCEPT !.pc = "extract_all_tables"]
       \/ /\ sec' = SecDevolver(Fallo("Error de archivo"))
          /\ UNCHANGED archivos
    /\ UNCHANGED <<vars_script, plantilla, inv, vars_parseo, vars_complete,
                   auto, hojas, proc>>

\* df_raw = self.extractor.extract_all_tables(pdf_path); if df_raw.empty: return
SecExtraer ==
    /\ sec.pc = "extract_all_tables"
    /\ \E salida \in {"filas", "vacia", "error"} :
          sec' = IF salida = "filas"
                 THEN [sec EXCEPT !.pc = "to_csv", !.extraccion = salida,
                                  !.pasos = Append(@, "extraccion")]
                 ELSE [SecDevolver(Fallo(IF salida = "vacia"
                                         THEN "No se pudieron extraer datos del PDF."
                                         ELSE "Error inesperado durante el procesamiento"))
                          EXCEPT !.extraccion = salida,
                                 !.pasos = Append(@, "extraccion")]
    /\ UNCHANGED <<vars_script, vars_plantillas, vars_parseo, vars_complete,
                   auto, hojas, proc>>

\* df_limpio.to_csv(self.raw_output, ...); a failed write may leave the file
SecGuardarBruto ==
    /\ sec.pc = "to_csv"
    /\ \/ /\ archivos' = [archivos EXCEPT !.raw_output = <<"propio">>]
          /\ sec' = [sec EXCEPT !.pc = "script_reorganizar"]
       \/ /\ \E bruto \in {archivos.raw_output, <<"propio">>} :
                archivos' = [archivos EXCEPT !.raw_output = bruto]
          /\ sec' = SecDevolver(Fallo("Error inesperado durante el procesamiento"))
    /\ UNCHANGED <<vars_script, plantilla, inv, vars_parseo, vars_complete,
                   auto, hojas, proc>>

\* if not self.script_reorganizar.exists(): return
SecBuscarReorganizar ==
    /\ sec.pc = "script_reorganizar"
    /\ \E existe \in BOOLEAN :
          sec' = IF existe
                 THEN [sec EXCEPT !.pc = "run_reorganizar",
                                  !.scripts = @ \cup {"reorganizar"}]
                 ELSE SecDevolver(Fallo("Script no encontrado"))
    /\ UNCHANGED <<vars_script, vars_plantillas, vars_parseo, vars_complete,
                   auto, hojas, proc>>

\* subprocess.run(["python", script_reorganizar]); then the tests of
\* result.returncode and of completo_output.exists(). The script writes its
\* output at its line 563 and may still fail in the lines after it.
SecEjecutarReorganizar ==
    /\ sec.pc = "run_reorganizar"
    /\ \/ /\ sec' = [SecDevolver(Fallo("Error de archivo"))
                        EXCEPT !.pasos = Append(@, "reorganizar")]
          /\ UNCHANGED archivos
       \/ \E rc \in CodigosDeSalida, escrito \in BOOLEAN :
             /\ rc = 0 => escrito
             /\ archivos' = IF escrito
                            THEN [archivos EXCEPT !.completo_output = <<"propio">>]
                            ELSE archivos
             /\ sec' = IF ~CodigoCorrecto(rc)
                       THEN [SecDevolver(Fallo("Error en reorganizacion de datos"))
                                EXCEPT !.pasos = Append(@, "reorganizar"),
                                       !.rc_reorganizar = rc]
                       ELSE IF archivos'.completo_output = <<>>
                       THEN [SecDevolver(Fallo("El script no genero el archivo esperado"))
                                EXCEPT !.pasos = Append(@, "reorganizar"),
                                       !.rc_reorganizar = rc]
                       ELSE [sec EXCEPT !.pc = "script_proceso_cliente",
                                        !.pasos = Append(@, "reorganizar"),
                                        !.rc_reorganizar = rc]
    /\ UNCHANGED <<vars_script, plantilla, inv, vars_parseo, vars_complete,
                   auto, hojas, proc>>

\* if not self.script_proceso_cliente.exists(): return
SecBuscarCliente ==
    /\ sec.pc = "script_proceso_cliente"
    /\ \E existe \in BOOLEAN :
          sec' = IF existe
                 THEN [sec EXCEPT !.pc = "run_cliente",
                                  !.scripts = @ \cup {"cliente"}]
                 ELSE SecDevolver(Fallo("Script no encontrado"))
    /\ UNCHANGED <<vars_script, vars_plantillas, vars_parseo, vars_complete,
                   auto, hojas, proc>>

\* subprocess.run(["python", script_proceso_cliente]); then the tests of
\* result.returncode and of final_output.exists(). main() returns without
\* writing when the COMPLETO file is missing, and may fail after writing.
SecEjecutarCliente ==
    /\ sec.pc = "run_cliente"
    /\ \/ /\ sec' = [SecDevolver(Fallo("Error de archivo"))
                        EXCEPT !.pasos = Append(@, "cliente")]
          /\ UNCHANGED archivos
       \/ \E rc \in CodigosDeSalida, escrito \in BOOLEAN :
             /\ rc = 0 => (escrito <=> archivos.completo_output # <<>>)
             /\ archivos' = IF escrito
                            THEN [archivos EXCEPT !.final_output = <<"propio">>]
                            ELSE archivos
             /\ sec' = IF ~CodigoCorrecto(rc)
                       THEN [SecDevolver(Fallo("Error en proceso de cliente"))
                                EXCEPT !.pasos = Append(@, "cliente"),
                                       !.rc_cliente = rc]
                       ELSE IF archivos'.final_output = <<>>
                       THEN [SecDevolver(Fallo("El script no genero el archivo final esperado"))
                                EXCEPT !.pasos = Append(@, "cliente"),
                                       !.rc_cliente = rc]
                       ELSE [sec EXCEPT !.pc = "read_csv",
                                        !.pasos = Append(@, "cliente"),
                                        !.rc_cliente = rc]
    /\ UNCHANGED <<vars_script, plantilla, inv, vars_parseo, vars_complete,
                   auto, hojas, proc>>

\* df_final = pd.read_csv(self.final_output, ...); return {'success': True, ...}
SecLeerFinal ==
    /\ sec.pc = "read_csv"
    /\ \/ sec' = SecDevolver(Exito(archivos.final_output[1]))
       \/ sec' = SecDevolver(Fallo("Error inesperado durante el procesamiento"))
    /\ UNCHANGED <<vars_script, vars_plantillas, vars_parseo, vars_complete,
                   auto, hojas, proc>>

\* finally: the raw CSV is removed, then the value is handed to the caller
SecLimpiar ==
    /\ sec.pc = "finally"
    /\ archivos' = Desenlazar(archivos)
    /\ sec' = [sec EXCEPT !.pc = "return"]
    /\ UNCHANGED <<vars_script, plantilla, inv, vars_parseo, vars_complete,
                   auto, hojas, proc>>

InitSecuencia ==
    /\ InicioScript(<<>>)
    /\ plantilla = PlantillaInicial
    /\ inv = [i \in Invocaciones |-> InvocacionInicial(<<>>)]
    /\ \E bruto \in ArchivoPrevio, completo \in ArchivoPrevio,
          final \in ArchivoPrevio, destino \in ArchivoPrevio :
          archivos = [pdf_destino |-> destino, raw_output |-> bruto,
                      completo_output |-> completo, final_output |-> final]
    /\ SinParseo
    /\ SinComplete
    /\ sec = SecuenciaInicial
    /\ auto = <<>>
    /\ hojas = <<>>
    /\ proc = <<>>

NextSecuencia ==
    \/ SecCopiar
    \/ SecExtraer
    \/ SecGuardarBruto
    \/ SecBuscarReorganizar
    \/ SecEjecutarReorganizar
    \/ SecBuscarCliente
    \/ SecEjecutarCliente
    \/ SecLeerFinal
    \/ SecLimpiar

SpecSecuencia == InitSecuencia /\ [][NextSecuencia]_vars

\* the steps started so far are the first steps of the docstring's list
EsPrefijoDePasos(p) ==
    /\ Len(p) <= Len(PasosSecuencia)
    /\ \A k \in 1..Len(p) : p[k] = PasosSecuencia[k]

\* the steps the call has started
PasosHechos == {sec.pasos[k] : k \in 1..Len(sec.pasos)}

SecExitosa == sec.resultado # <<>> /\ sec.resultado[1].success = "True"

\* C26: process_pdf starts its steps strictly in the order extraction,
\* reorganisation script, client script. The reorganisation script is started
\* only after a non-empty extraction and with the script present; the client
\* script only after the reorganisation script exited with code 0, left the
\* COMPLETO file, and with the client script present. success=True needs both
\* exit codes 0 and the final file; a call that failed returns success=False
\* with an error message, and once a result is set no further step starts.
C26_PasosEnOrden ==
    /\ [](/\ EsPrefijoDePasos(sec.pasos)
          /\ "reorganizar" \in PasosHechos
                => sec.extraccion = "filas" /\ "reorganizar" \in sec.scripts
          /\ "cliente" \in PasosHechos
                => /\ sec.rc_reorganizar = 0
                   /\ archivos.completo_output # <<>>
                   /\ "cliente" \in sec.scripts
          /\ SecExitosa
                => /\ sec.pasos = PasosSecuencia
                   /\ sec.rc_reorganizar = 0
                   /\ sec.rc_cliente = 0
                   /\ archivos.final_output # <<>>
          /\ sec.pc = "return"
                => /\ sec.resultado # <<>>
                   /\ ~SecExitosa => /\ sec.resultado[1].success = "False"
                                     /\ sec.resultado[1].error # None
                   /\ (\/ sec.extraccion # "filas"
                       \/ sec.rc_reorganizar # 0
                       \/ sec.rc_cliente # 0) => ~SecExitosa)
    /\ [][sec.resultado # <<>> => /\ sec'.pasos = sec.pasos
                                  /\ sec'.resultado = sec.resultado]_vars

\* a call that ran the three steps and returned success=True
C26_Testigo == sec.pc = "return" /\ SecExitosa

\* C27: when process_pdf returns, on whatever path, the raw CSV does not
\* exist; the cleanup of the finally clause leaves the COMPLETO and
\* FINAL_CLIENTE files as they were.
C27_SoloElBrutoSeBorra ==
    /\ [](sec.pc = "return" => archivos.raw_output = <<>>)
    /\ [][sec.pc = "finally"
             => /\ archivos'.completo_output = archivos.completo_output
                /\ archivos'.final_output = archivos.final_output]_vars

\* a call that wrote the raw CSV, went on to the scripts, and has returned
\* with the COMPLETO file on disk
C27_Testigo ==
    /\ sec.pc = "return"
    /\ "reorganizar" \in sec.scripts
    /\ archivos.completo_output # <<>>

\* ---------------------------------------------------------------------
\* PDFExtractor in 'auto' mode (src/pdf_extractor.py): the constructor
\* records the libraries that import, _extract_auto walks the table
\* backends and ends in the plain-text fallback.
\* ---------------------------------------------------------------------

\* the keys of methods_to_check, in the order of the dict
methods_to_check == <<"pdfplumber", "camelot", "tabula", "pymupdf", "PyPDF2">>

\* the table backends tried with camelot before pdfplumber
methods_order_alterado == <<"camelot", "pdfplumber", "tabula", "pymupdf">>

\* methods_order of _extract_auto
methods_order == <<"pdfplumber", "camelot", "tabula", "pymupdf">>

Bibliotecas == {methods_to_check[k] : k \in 1..Len(methods_to_check)}

\* _check_available_methods: the names whose import succeeds, in dict order
check_available_methods(instaladas) ==
    SelectSeq(methods_to_check, LAMBDA m : m \in instaladas)

\* what a backend does with the PDF: a non-empty list of tables, an empty
\* list, or an exception; a library that is not installed raises ImportError
Respuestas == {"tablas", "vacio", "error"}

\* self.available_methods as a set, for the test `method in self.available_methods`
Disponibles == {auto.available_methods[k] : k \in 1..Len(auto.available_methods)}

\* one round of the for loop of _extract_auto
AutoMetodo ==
    /\ auto # <<>>
    /\ auto.pc = "for"
    /\ LET method == methods_order[auto.k]
           sigue == IF auto.k = Len(methods_order)
                    THEN [auto EXCEPT !.pc = "fallback", !.k = @ + 1]
                    ELSE [auto EXCEPT !.k = @ + 1]
       IN  auto' = IF method \notin Disponibles
                   THEN sigue
                   ELSE IF auto.respuesta[method] = "tablas"
                   THEN [auto EXCEPT !.pc = "return",
                                     !.intentos = Append(@, method),
                                     !.retorno = <<[metodo |-> method,
                                                    tables |-> "tablas"]>>]
                   ELSE [sigue EXCEPT !.intentos = Append(@, method)]
    /\ UNCHANGED <<vars_script, vars_plantillas, vars_parseo, vars_complete,
                   sec, hojas, proc>>

\* return self._extract_text_fallback(pdf_path, pages), outside the try
AutoTextoPlano ==
    /\ auto # <<>>
    /\ auto.pc = "fallback"
    /\ auto' = IF auto.respuesta["PyPDF2"] = "error"
               THEN [auto EXCEPT !.pc = "raise",
                                 !.intentos = Append(@, "PyPDF2")]
               ELSE [auto EXCEPT !.pc = "return",
                                 !.intentos = Append(@, "PyPDF2"),
                                 !.retorno = <<[metodo |-> "PyPDF2",
                                                tables |-> auto.respuesta["PyPDF2"]]>>]
    /\ UNCHANGED <<vars_script, vars_plantillas, vars_parseo, vars_complete,
                   sec, hojas, proc>>

InitAuto ==
    /\ InicioScript(<<>>)
    /\ SinPlantillas
    /\ SinParseo
    /\ SinComplete
    /\ sec = SecuenciaInicial
    /\ hojas = <<>>
    /\ proc = <<>>
    /\ \E instaladas \in SUBSET Bibliotecas, r \in [Bibliotecas -> Respuestas] :
          /\ \A m \in Bibliotecas \ instaladas : r[m] = "error"
          /\ auto = [available_methods |-> check_available_methods(instaladas),
                     respuesta |-> r, k |-> 1, pc |-> "for",
                     intentos |-> <<>>, retorno |-> <<>>]

NextAuto == AutoMetodo \/ AutoTextoPlano

SpecAuto == InitAuto /\ [][NextAuto]_vars

\* the order the claim fixes
OrdenDeTablas == <<"pdfplumber", "camelot", "tabula", "pymupdf">>

\* the available table backends among the first n of the fixed order
DisponiblesHasta(n) ==
    SelectSeq(SubSeq(OrdenDeTablas, 1, n), LAMBDA m : m \in Disponibles)

PosicionEnOrden(m) == CHOOSE k \in 1..Len(OrdenDeTablas) : OrdenDeTablas[k] = m

AutoDevuelveDe(m) == auto.pc = "return" /\ auto.retorno[1].metodo = m

\* C28: in 'auto' mode the table backends are tried in the order pdfplumber,
\* camelot, tabula, pymupdf, the unavailable ones skipped; the call returns
\* the tables of the first available backend that gives a non-empty list,
\* having passed over every earlier one that raised or gave nothing; the
\* plain-text fallback runs only after every available table backend was
\* tried and none gave tables, and no table backend makes the call fail.
C28_PrimeroConTablas ==
    /\ auto.pc = "for" => auto.intentos = DisponiblesHasta(auto.k - 1)
    /\ \A m \in Bibliotecas \ {"PyPDF2"} :
          AutoDevuelveDe(m)
             => /\ m \in Disponibles
                /\ auto.respuesta[m] = "tablas"
                /\ auto.retorno[1].tables = "tablas"
                /\ auto.intentos = DisponiblesHasta(PosicionEnOrden(m))
                /\ \A k \in 1..(Len(auto.intentos) - 1) :
                      auto.respuesta[auto.intentos[k]] # "tablas"
    /\ (auto.pc \in {"fallback", "raise"} \/ AutoDevuelveDe("PyPDF2"))
          => /\ \A m \in Disponibles \ {"PyPDF2"} : auto.respuesta[m] # "tablas"
             /\ SelectSeq(auto.intentos, LAMBDA m : m # "PyPDF2")
                   = DisponiblesHasta(Len(OrdenDeTablas))
    /\ auto.pc = "raise" => auto.intentos[Len(auto.intentos)] = "PyPDF2"

\* pdfplumber raised, camelot gave nothing, tabula gave the tables returned
C28_Testigo ==
    /\ AutoDevuelveDe("tabula")
    /\ auto.intentos = <<"pdfplumber", "camelot", "tabula">>
    /\ auto.respuesta["pdfplumber"] = "error"
    /\ auto.respuesta["camelot"] = "vacio"

\* ---------------------------------------------------------------------
\* GoogleSheetsHandler.find_and_update (src/src/integrations/
\* sheets_handler.py): a sheet of rows with a key column and a value
\* column, a DataFrame of new rows, and an API whose calls can fail.
\* ---------------------------------------------------------------------

ClavesDeHoja == {"a", "b"}
ValoresDeHoja == {"1", "2"}

\* most rows in the DataFrame handed to find_and_update
MaxFilasHoja == 2

FilaDeHoja(c, v) == [clave |-> c, valor |-> v]

\* the sheet before the call: data rows under the header row
HojasPrevias ==
    { <<FilaDeHoja("a", "0")>>, <<FilaDeHoja("b", "0")>>,
      <<FilaDeHoja("a", "0"), FilaDeHoja("b", "0")>> }

\* DataFrames of up to MaxFilasHoja rows, one row per key
DatosNuevos ==
    { d \in SecuenciasHasta({FilaDeHoja(c, v) : c \in ClavesDeHoja, v \in ValoresDeHoja},
                            MaxFilasHoja) :
        \A j, k \in 1..Len(d) : j # k => d[j].clave # d[k].clave }

\* worksheet.find(key_value, in_column=...): the first row holding the key,
\* 0 for CellNotFound
Encontrar(hoja, c) ==
    IF \E k \in 1..Len(hoja) : hoja[k].clave = c
    THEN CHOOSE k \in 1..Len(hoja) :
            /\ hoja[k].clave = c
            /\ \A j \in 1..(k - 1) : hoja[j].clave # c
    ELSE 0

\* worksheet.batch_update(updates): the cells written in list order
RECURSIVE AplicarUpdates(_, _)
AplicarUpdates(hoja, updates) ==
    IF updates = <<>> THEN hoja
    ELSE AplicarUpdates([hoja EXCEPT ![updates[1].fila].valor = updates[1].valor],
                        Tail(updates))

\* return True at line 352: the two helpers' results are not looked at
DevueltoTrasBucle(fallo) == "True"

\* open_sheet, read_sheet, the two key_column tests, row_values(1)
HojaAbrir ==
    /\ hojas # <<>>
    /\ hojas.pc = "open"
    /\ \E falla \in BOOLEAN :
          hojas' = IF falla \/ ~hojas.clave_en_hoja \/ ~hojas.clave_en_datos
                   THEN [hojas EXCEPT !.pc = "return", !.retorno = "False"]
                   ELSE [hojas EXCEPT !.pc = "for"]
    /\ UNCHANGED <<vars_script, vars_plantillas, vars_parseo, vars_complete,
                   sec, auto, proc>>

\* one round of `for _, new_row in df.iterrows()`: the row's key is looked up;
\* found, its cells join updates; CellNotFound, the row goes to
\* append_dataframe, whose result is dropped; any other exception ends the call
HojaFila ==
    /\ hojas # <<>>
    /\ hojas.pc = "for"
    /\ hojas.i <= Len(hojas.df)
    /\ LET new_row == hojas.df[hojas.i]
           row_num == Encontrar(hojas.hoja, new_row.clave)
       IN  \E falla \in BOOLEAN, excepcion \in BOOLEAN :
              hojas' =
                 IF excepcion
                 THEN [hojas EXCEPT !.pc = "return", !.retorno = "False"]
                 ELSE IF row_num # 0
                 THEN [hojas EXCEPT !.i = @ + 1,
                                    !.updates = Append(@, [fila |-> row_num,
                                                           valor |-> new_row.valor])]
                 ELSE IF falla
                 THEN [hojas EXCEPT !.i = @ + 1, !.fallo = TRUE]
                 ELSE [hojas EXCEPT !.i = @ + 1,
                                    !.hoja = Append(@, new_row)]
    /\ UNCHANGED <<vars_script, vars_plantillas, vars_parseo, vars_complete,
                   sec, auto, proc>>

\* if updates: self.update_cells(...); return True
HojaActualizar ==
    /\ hojas # <<>>
    /\ hojas.pc = "for"
    /\ hojas.i > Len(hojas.df)
    /\ \E falla \in BOOLEAN :
          LET fallo == hojas.fallo \/ (falla /\ hojas.updates # <<>>)
          IN  hojas' = [hojas EXCEPT
                          !.pc = "return",
                          !.fallo = fallo,
                          !.hoja = IF falla THEN @
                                   ELSE AplicarUpdates(@, hojas.updates),
                          !.retorno = DevueltoTrasBucle(fallo)]
    /\ UNCHANGED <<vars_script, vars_plantillas, vars_parseo, vars_complete,
                   sec, auto, proc>>

InitHojas ==
    /\ InicioScript(<<>>)
    /\ SinPlantillas
    /\ SinParseo
    /\ SinComplete
    /\ sec = SecuenciaInicial
    /\ auto = <<>>
    /\ proc = <<>>
    /\ \E d \in DatosNuevos, h \in HojasPrevias,
          en_hoja \in BOOLEAN, en_datos \in BOOLEAN :
          hojas = [df |-> d, hoja |-> h, previa |-> h,
                   clave_en_hoja |-> en_hoja, clave_en_datos |-> en_datos,
                   i |-> 1, updates |-> <<>>, fallo |-> FALSE,
                   pc |-> "open", retorno |-> None]

NextHojas == HojaAbrir \/ HojaFila \/ HojaActualizar

SpecHojas == InitHojas /\ [][NextHojas]_vars

\* the row of the DataFrame is in the sheet: in place when its key was there
\* before the call, after the old rows otherwise
FilaEnSuSitio(r) ==
    LET antes == Encontrar(hojas.previa, r.clave)
    IN  IF antes # 0
        THEN hojas.hoja[antes] = r
        ELSE \E k \in (Len(hojas.previa) + 1)..Len(hojas.hoja) : hojas.hoja[k] = r

\* C29: find_and_update returns True only when every row of the DataFrame
\* whose key was in the sheet has been updated in place and every other row
\* has been appended; when an append or the cell update failed it returns False.
C29_VerdaderoSoloSiHecho ==
    (hojas.pc = "return" /\ hojas.retorno = "True")
       => /\ ~hojas.fallo
          /\ \A k \in 1..Len(hojas.df) : FilaEnSuSitio(hojas.df[k])

\* ---------------------------------------------------------------------
\* procesar_documento (src/app.py): the upload is written to a temporary
\* file, processed, and the result written to a temporary output file
\* that backs the download button.
\* ---------------------------------------------------------------------

\* the choices of the template selectbox (main, line 211)
PlantillasDeApp == {"Vida Laboral", "Nominas", "Facturas"}

\* formato -> formato_ext (line 430)
formato_ext ==
    [f \in {"Excel (.xlsx)", "CSV (.csv)", "JSON (.json)"} |->
        IF f = "Excel (.xlsx)" THEN "xlsx" ELSE IF f = "CSV (.csv)" THEN "csv" ELSE "json"]

\* uploaded files: uploaded_file.name and Path(name).stem
Subidos == { [name |-> "vida.pdf", stem |-> "vida"],
             [name |-> "informe.pdf", stem |-> "informe"] }

\* temp_path = Path(f"temp_{uploaded_file.name}")
temp_path(subido) == "temp_" \o subido.name

\* output_path = Path(f"temp_output_{stem}_procesado.{formato_ext}")
output_path(subido, formato) ==
    "temp_output_" \o subido.stem \o "_procesado." \o formato_ext[formato]

\* an exception inside the try block: control goes to the except clause
ProcLanzar(p) == [p EXCEPT !.pc = "except"]

\* a return inside the try block: control goes to the finally clause
ProcReturn(p, por) == [p EXCEPT !.pc = "finally", !.camino = por]

\* with open(temp_path, "wb") as f: f.write(uploaded_file.getvalue())
ProcGuardar ==
    /\ proc # <<>>
    /\ proc.pc = "open"
    /\ \/ proc' = [proc EXCEPT !.pc = "plantilla",
                               !.disco = @ \cup {temp_path(proc.subido)}]
       \/ \E creado \in BOOLEAN :
             proc' = ProcLanzar([proc EXCEPT
                        !.disco = IF creado THEN @ \cup {temp_path(proc.subido)}
                                  ELSE @])
    /\ UNCHANGED <<vars_script, vars_plantillas, vars_parseo, vars_complete,
                   sec, auto, hojas>>

\* if plantilla == "Vida Laboral": template = ... else: st.error(...); return
ProcPlantilla ==
    /\ proc # <<>>
    /\ proc.pc = "plantilla"
    /\ proc' = IF proc.plantilla = "Vida Laboral"
               THEN [proc EXCEPT !.pc = "process_pdf"]
               ELSE ProcReturn(proc, "no_implementada")
    /\ UNCHANGED <<vars_script, vars_plantillas, vars_parseo, vars_complete,
                   sec, auto, hojas>>

\* resultado = template.process_pdf(temp_path); if not resultado['success']: return
ProcProcesar ==
    /\ proc # <<>>
    /\ proc.pc = "process_pdf"
    /\ \E success \in {"True", "False", "raise"} :
          proc' = IF success = "True" THEN [proc EXCEPT !.pc = "save_dataframe"]
                  ELSE IF success = "False" THEN ProcReturn(proc, "resultado_fallido")
                  ELSE ProcLanzar(proc)
    /\ UNCHANGED <<vars_script, vars_plantillas, vars_parseo, vars_complete,
                   sec, auto, hojas>>

\* the statistics and preview, then FileHandler.save_dataframe(df, output_path, ...)
ProcGuardarSalida ==
    /\ proc # <<>>
    /\ proc.pc = "save_dataframe"
    /\ \/ proc' = [proc EXCEPT
                      !.pc = "download_button",
                      !.disco = @ \cup {output_path(proc.subido, proc.formato)}]
       \/ \E creado \in BOOLEAN :
             proc' = ProcLanzar([proc EXCEPT
                        !.disco = IF creado
                                  THEN @ \cup {output_path(proc.subido, proc.formato)}
                                  ELSE @])
    /\ UNCHANGED <<vars_script, vars_plantillas, vars_parseo, vars_complete,
                   sec, auto, hojas>>

\* the file is read, st.download_button is drawn, and both temporary files
\* are unlinked at the end of the try block
ProcDescargar ==
    /\ proc # <<>>
    /\ proc.pc = "download_button"
    /\ \/ proc' = ProcReturn([proc EXCEPT
                     !.disco = @ \ {temp_path(proc.subido),
                                    output_path(proc.subido, proc.formato)}],
                     "descarga")
       \/ proc' = ProcLanzar(proc)
    /\ UNCHANGED <<vars_script, vars_plantillas, vars_parseo, vars_complete,
                   sec, auto, hojas>>

\* except Exception as e: the error box and the log line
ProcExcept ==
    /\ proc # <<>>
    /\ proc.pc = "except"
    /\ proc' = ProcReturn(proc, "excepcion")
    /\ UNCHANGED <<vars_script, vars_plantillas, vars_parseo, vars_complete,
                   sec, auto, hojas>>

\* finally: progress_bar.empty(); status_text.empty()
ProcFinally ==
    /\ proc # <<>>
    /\ proc.pc = "finally"
    /\ proc' = [proc EXCEPT !.pc = "fin"]
    /\ UNCHANGED <<vars_script, vars_plantillas, vars_parseo, vars_complete,
                   sec, auto, hojas>>

InitProcesar ==
    /\ InicioScript(<<>>)
    /\ SinPlantillas
    /\ SinParseo
    /\ SinComplete
    /\ sec = SecuenciaInicial
    /\ auto = <<>>
    /\ hojas = <<>>
    /\ \E u \in Subidos, p \in PlantillasDeApp, f \in DOMAIN formato_ext :
          proc = [subido |-> u, plantilla |-> p, formato |-> f,
                  pc |-> "open", disco |-> {}, camino |-> None]

NextProcesar ==
    \/ ProcGuardar
    \/ ProcPlantilla
    \/ ProcProcesar
    \/ ProcGuardarSalida
    \/ ProcDescargar
    \/ ProcExcept
    \/ ProcFinally

SpecProcesar == InitProcesar /\ [][NextProcesar]_vars

\* C30: when procesar_documento has finished, by whatever path, neither the
\* temporary copy of the upload nor the temporary output file is on disk.
C30_TemporalesBorrados ==
    (proc # <<>> /\ proc.pc = "fin")
       => /\ temp_path(proc.subido) \notin proc.disco
          /\ output_path(proc.subido, proc.formato) \notin proc.disco

====
